---- MODULE Spec2Model ----
(***************************************************************************)
(* A model of the tabular data reconciliation engine of findgeo:           *)
(*   ExtendData     (src/api/extend_data/extenddata.py)                    *)
(*   writeDataBase  (src/api/form_table/writedata.py)                      *)
(*   readDataBase   (src/api/form_table/formdata.py)                       *)
(*   formDataBase   (src/api/form_table/formdata.py)                       *)
(*                                                                         *)
(* Text is modelled character by character: a string is a sequence of      *)
(* one-character strings, so that trimming, JSON encoding and JSON         *)
(* parsing are computed as the code computes them.                         *)
(***************************************************************************)
EXTENDS Integers, Sequences, FiniteSets, TLC

\* ------------------------------------------------------------------------
\* Text
\* ------------------------------------------------------------------------

\* str.strip() removes these from both ends (of the characters the model has)
PyWhitespace == {" ", "\t", "\n", "\r", "\f"}

\* the JSON decoder skips these between tokens (json.decoder.WHITESPACE)
JsonWhitespace == {" ", "\t", "\n", "\r"}

Digits == {"0", "1", "2", "3", "4", "5", "6", "7", "8", "9"}

RECURSIVE LStrip(_)
LStrip(s) == IF s # <<>> /\ Head(s) \in PyWhitespace THEN LStrip(Tail(s)) ELSE s

RECURSIVE RStrip(_)
RStrip(s) ==
    IF s # <<>> /\ s[Len(s)] \in PyWhitespace
    THEN RStrip(SubSeq(s, 1, Len(s) - 1))
    ELSE s

\* str.strip()
Strip(s) == RStrip(LStrip(s))

\* the concatenation of a sequence of strings
RECURSIVE Concat(_)
Concat(ss) == IF ss = <<>> THEN <<>> ELSE Head(ss) \o Concat(Tail(ss))

\* sep.join(ss)
RECURSIVE Join(_, _)
Join(ss, sep) ==
    IF ss = <<>> THEN <<>>
    ELSE IF Len(ss) = 1 THEN ss[1]
    ELSE ss[1] \o sep \o Join(Tail(ss), sep)

\* x in list
InSeq(x, ss) == \E i \in 1..Len(ss) : ss[i] = x

\* s[i:].startswith(lit)
StartsWith(s, i, lit) ==
    /\ i + Len(lit) - 1 <= Len(s)
    /\ \A k \in 1..Len(lit) : s[i + k - 1] = lit[k]

\* ------------------------------------------------------------------------
\* JSON, as the json module of the standard library encodes and decodes it
\* ------------------------------------------------------------------------

\* characters a JSON string literal may not hold unescaped (strict mode)
ControlChars == {"\t", "\n", "\r", "\f"}

\* json.encoder.ESCAPE_DCT
JsonEscapeChar(c) ==
    CASE c = "\"" -> <<"\\", "\"">>
      [] c = "\\" -> <<"\\", "\\">>
      [] c = "\n" -> <<"\\", "n">>
      [] c = "\r" -> <<"\\", "r">>
      [] c = "\t" -> <<"\\", "t">>
      [] c = "\f" -> <<"\\", "f">>
      [] OTHER -> <<c>>

\* the JSON string literal of s (ensure_ascii=False)
JsonString(s) ==
    <<"\"">> \o Concat([i \in 1..Len(s) |-> JsonEscapeChar(s[i])]) \o <<"\"">>

\* json.dumps(list_of_str, ensure_ascii=False)
JsonDumps(list) ==
    <<"[">> \o Join([i \in 1..Len(list) |-> JsonString(list[i])], <<",", " ">>)
            \o <<"]">>

\* decoded values: a string, a list of values, or any other scalar, which is
\* kept as the text str() gives it (True, None, 12, ...)
JStr(s) == [t |-> "str", v |-> s]
JAtom(s) == [t |-> "atom", v |-> s]
JList(items) == [t |-> "list", v |-> items]

\* a scan ends in a value and the position after it, in a decode error, or in
\* text whose decoded value the model does not represent (modelled = FALSE:
\* floats, objects, \u and \b escapes)
JOk(v, n) == [ok |-> TRUE, modelled |-> TRUE, val |-> v, next |-> n]
JFail == [ok |-> FALSE, modelled |-> TRUE, val |-> JStr(<<>>), next |-> 0]
JUnmodelled == [ok |-> FALSE, modelled |-> FALSE, val |-> JStr(<<>>), next |-> 0]

RECURSIVE SkipWs(_, _)
SkipWs(s, i) ==
    IF i <= Len(s) /\ s[i] \in JsonWhitespace THEN SkipWs(s, i + 1) ELSE i

\* json.decoder.py_scanstring, from the position after the opening quote
RECURSIVE ScanString(_, _, _)
ScanString(s, i, acc) ==
    IF i > Len(s) THEN JFail
    ELSE IF s[i] = "\"" THEN JOk(JStr(acc), i + 1)
    ELSE IF s[i] \in ControlChars THEN JFail
    ELSE IF s[i] # "\\" THEN ScanString(s, i + 1, Append(acc, s[i]))
    ELSE IF i + 1 > Len(s) THEN JFail
    ELSE LET e == s[i + 1] IN
         IF e \in {"\"", "\\", "/"} THEN ScanString(s, i + 2, Append(acc, e))
         ELSE IF e = "n" THEN ScanString(s, i + 2, Append(acc, "\n"))
         ELSE IF e = "r" THEN ScanString(s, i + 2, Append(acc, "\r"))
         ELSE IF e = "t" THEN ScanString(s, i + 2, Append(acc, "\t"))
         ELSE IF e = "f" THEN ScanString(s, i + 2, Append(acc, "\f"))
         ELSE IF e \in {"b", "u"} THEN JUnmodelled
         ELSE JFail

RECURSIVE DigitsEnd(_, _)
DigitsEnd(s, i) ==
    IF i <= Len(s) /\ s[i] \in Digits THEN DigitsEnd(s, i + 1) ELSE i

\* json.scanner.NUMBER_RE at position i; an integer is kept as str(int(text))
ScanNumber(s, i) ==
    LET d == IF s[i] = "-" THEN i + 1 ELSE i
        e == IF s[d] = "0" THEN d + 1 ELSE DigitsEnd(s, d)
        hasFrac == e + 1 <= Len(s) /\ s[e] = "." /\ s[e + 1] \in Digits
        hasExp ==
            /\ e + 1 <= Len(s)
            /\ s[e] \in {"e", "E"}
            /\ \/ s[e + 1] \in Digits
               \/ /\ e + 2 <= Len(s)
                  /\ s[e + 1] \in {"+", "-"}
                  /\ s[e + 2] \in Digits
        text == SubSeq(s, i, e - 1)
    IN  IF hasFrac \/ hasExp THEN JUnmodelled
        ELSE JOk(JAtom(IF text = <<"-", "0">> THEN <<"0">> ELSE text), e)

\* json.scanner.py_make_scanner._scan_once and json.decoder.JSONArray
RECURSIVE ScanValue(_, _)
RECURSIVE ScanArray(_, _, _)
ScanValue(s, i) ==
    IF i > Len(s) THEN JFail
    ELSE LET c == s[i] IN
         IF c = "\"" THEN ScanString(s, i + 1, <<>>)
         ELSE IF c = "{" THEN JUnmodelled
         ELSE IF c = "[" THEN
              LET j == SkipWs(s, i + 1) IN
              IF j <= Len(s) /\ s[j] = "]" THEN JOk(JList(<<>>), j + 1)
              ELSE ScanArray(s, j, <<>>)
         ELSE IF StartsWith(s, i, <<"n", "u", "l", "l">>)
              THEN JOk(JAtom(<<"N", "o", "n", "e">>), i + 4)
         ELSE IF StartsWith(s, i, <<"t", "r", "u", "e">>)
              THEN JOk(JAtom(<<"T", "r", "u", "e">>), i + 4)
         ELSE IF StartsWith(s, i, <<"f", "a", "l", "s", "e">>)
              THEN JOk(JAtom(<<"F", "a", "l", "s", "e">>), i + 5)
         ELSE IF c \in Digits \/ (c = "-" /\ i + 1 <= Len(s) /\ s[i + 1] \in Digits)
              THEN ScanNumber(s, i)
         ELSE IF StartsWith(s, i, <<"N", "a", "N">>)
              THEN JOk(JAtom(<<"n", "a", "n">>), i + 3)
         ELSE IF StartsWith(s, i, <<"I", "n", "f", "i", "n", "i", "t", "y">>)
              THEN JOk(JAtom(<<"i", "n", "f">>), i + 8)
         ELSE IF StartsWith(s, i, <<"-", "I", "n", "f", "i", "n", "i", "t", "y">>)
              THEN JOk(JAtom(<<"-", "i", "n", "f">>), i + 9)
         ELSE JFail

ScanArray(s, i, acc) ==
    LET r == ScanValue(s, i) IN
    IF ~r.ok THEN r
    ELSE LET j == SkipWs(s, r.next) IN
         IF j > Len(s) THEN JFail
         ELSE IF s[j] = "]" THEN JOk(JList(Append(acc, r.val)), j + 1)
         ELSE IF s[j] = "," THEN ScanArray(s, SkipWs(s, j + 1), Append(acc, r.val))
         ELSE JFail

\* json.loads(s): one value, with nothing but whitespace around it
JsonLoads(s) ==
    LET r == ScanValue(s, SkipWs(s, 1)) IN
    IF ~r.ok THEN r
    ELSE IF SkipWs(s, r.next) = Len(s) + 1 THEN r
    ELSE JFail

\* repr() of a str: single quotes, unless it holds ' and no "
PyReprStr(s) ==
    LET q == IF InSeq("'", s) /\ ~InSeq("\"", s) THEN "\"" ELSE "'"
        esc(c) ==
            CASE c = "\\" -> <<"\\", "\\">>
              [] c = "\n" -> <<"\\", "n">>
              [] c = "\r" -> <<"\\", "r">>
              [] c = "\t" -> <<"\\", "t">>
              [] c = "\f" -> <<"\\", "x", "0", "c">>
              [] c = q -> <<"\\", c>>
              [] OTHER -> <<c>>
    IN  <<q>> \o Concat([i \in 1..Len(s) |-> esc(s[i])]) \o <<q>>

\* str() and repr() of a decoded value
RECURSIVE PyStr(_)
RECURSIVE PyRepr(_)
PyStr(v) ==
    IF v.t = "list"
    THEN <<"[">> \o Join([i \in 1..Len(v.v) |-> PyRepr(v.v[i])], <<",", " ">>)
                 \o <<"]">>
    ELSE v.v

PyRepr(v) == IF v.t = "str" THEN PyReprStr(v.v) ELSE PyStr(v)

\* ------------------------------------------------------------------------
\* ExtendData: the cell algebra
\* ------------------------------------------------------------------------

\* a cell DictReader leaves at None (restval) because its row is too short
NoneCell == <<"<None>">>

\* what parsing yields for text whose decoded value the model does not hold
UnmodelledList == << <<"<unmodelled>">> >>

\* _parse_existing_cell(cell): the list of strings a stored cell stands for
ParseExistingCell(cell) ==
    IF cell = NoneCell THEN <<>>
    ELSE LET c == Strip(cell)
             r == JsonLoads(c)
         IN  IF c = <<>> THEN <<>>
             ELSE IF ~r.modelled THEN UnmodelledList
             ELSE IF ~r.ok THEN <<c>>
             ELSE IF r.val.t = "list"
                  THEN [i \in 1..Len(r.val.v) |-> PyStr(r.val.v[i])]
             ELSE <<PyStr(r.val)>>

\* Merge new_items into existing_list, preserving order and uniqueness:
\* the two loops "for item in ...: if item not in merged: merged.append(item)"
RECURSIVE AppendUnique(_, _)
AppendUnique(merged, items) ==
    IF items = <<>> THEN merged
    ELSE AppendUnique(IF InSeq(Head(items), merged)
                      THEN merged
                      ELSE Append(merged, Head(items)),
                      Tail(items))

\* (mutant) the second loop appends without "if item not in merged"
MergeItemsNoUnique(existing_list, new_items) ==
    AppendUnique(<<>>, existing_list) \o new_items

MergeItems(existing_list, new_items) ==
    AppendUnique(AppendUnique(<<>>, existing_list), new_items)

\* the stored string of a merged list
StoredValue(merged, json_store) ==
    IF Len(merged) = 0 THEN <<>>
    ELSE IF Len(merged) = 1 THEN merged[1]
    ELSE IF json_store THEN JsonDumps(merged)
    ELSE Join(merged, <<" ", "|", " ">>)

\* ------------------------------------------------------------------------
\* Tables on disk.  A file is the sequence of its CSV records, each record a
\* sequence of cells; the csv module reads back what it wrote, so the text
\* of the records is not modelled.  A blank line is the record <<>>.
\* ------------------------------------------------------------------------

Range(s) == {s[i] : i \in 1..Len(s)}

RECURSIVE SelectNonBlank(_)
SelectNonBlank(recs) ==
    IF recs = <<>> THEN <<>>
    ELSE IF Head(recs) = <<>> THEN SelectNonBlank(Tail(recs))
    ELSE <<Head(recs)>> \o SelectNonBlank(Tail(recs))

\* csv.DictReader.fieldnames: the first record of the file
ReaderFieldnames(f) == IF f = <<>> THEN <<>> ELSE f[1]

\* (mutant) the missing column is put first
FieldnamesPrepend(f, tablekey) ==
    IF InSeq(tablekey, ReaderFieldnames(f))
    THEN ReaderFieldnames(f)
    ELSE <<tablekey>> \o ReaderFieldnames(f)

\* fieldnames of ExtendData: the file's, with tablekey appended when missing
Fieldnames(f, tablekey) ==
    IF InSeq(tablekey, ReaderFieldnames(f))
    THEN ReaderFieldnames(f)
    ELSE Append(ReaderFieldnames(f), tablekey)

\* the dict DictReader makes of a record: dict(zip(fieldnames, row)), then
\* None under every fieldname the record is too short for; cells beyond the
\* header go under the key None, which no lookup of ExtendData reads
LastIndex(names, k) ==
    IF InSeq(k, names)
    THEN CHOOSE i \in 1..Len(names) :
            names[i] = k /\ \A j \in (i + 1)..Len(names) : names[j] # k
    ELSE 0

RowDict(names, rec) ==
    [k \in Range(names) |->
        IF LastIndex(names, k) <= Len(rec) THEN rec[LastIndex(names, k)]
        ELSE NoneCell]

\* all_rows = [dict(row) for row in reader]: blank records are skipped
AllRows(f) ==
    LET names == ReaderFieldnames(f)
        recs == SelectNonBlank(IF f = <<>> THEN <<>> ELSE Tail(f))
    IN  [i \in 1..Len(recs) |-> RowDict(names, recs[i])]

\* row.get(k, "")
Get(row, k) == IF k \in DOMAIN row THEN row[k] ELSE <<>>

\* "if x is None: x = ''"
NoneToEmpty(cell) == IF cell = NoneCell THEN <<>> ELSE cell

\* the matching loop over zip(search_keys, search_vals), from pair i on
RECURSIVE MatchedFrom(_, _, _, _)
MatchedFrom(row, search_keys, search_vals, i) ==
    IF i > Len(search_keys) \/ i > Len(search_vals) THEN TRUE
    ELSE IF Strip(NoneToEmpty(Get(row, search_keys[i]))) # Strip(search_vals[i])
         THEN FALSE
    ELSE MatchedFrom(row, search_keys, search_vals, i + 1)

\* (mutant) the comparison without .strip()
MatchedNoStrip(row, search_keys, search_vals) ==
    \A i \in 1..Len(search_keys) :
        NoneToEmpty(Get(row, search_keys[i])) = search_vals[i]

Matched(row, search_keys, search_vals) ==
    MatchedFrom(row, search_keys, search_vals, 1)

\* the new content of the tablekey cell of a matched row
NewCell(row, a) ==
    StoredValue(MergeItems(ParseExistingCell(Get(row, a.tablekey)), a.extenddata),
                a.json_store)

\* row[tablekey] = stored_value
SetCell(row, k, v) ==
    [c \in DOMAIN row \cup {k} |-> IF c = k THEN v ELSE row[c]]

\* all_rows after the update loop
UpdatedAllRows(rows, a) ==
    [i \in 1..Len(rows) |->
        IF Matched(rows[i], a.searchkey, a.searchvalues)
        THEN SetCell(rows[i], a.tablekey, NewCell(rows[i], a))
        ELSE rows[i]]

\* updated_rows: the matched rows after the update, as lists in header order
RECURSIVE UpdatedRowsFrom(_, _, _, _)
UpdatedRowsFrom(rows, a, names, i) ==
    IF i > Len(rows) THEN <<>>
    ELSE (IF Matched(rows[i], a.searchkey, a.searchvalues)
          THEN << [j \in 1..Len(names) |->
                     Get(SetCell(rows[i], a.tablekey, NewCell(rows[i], a)),
                         names[j])] >>
          ELSE <<>>)
         \o UpdatedRowsFrom(rows, a, names, i + 1)

UpdatedRows(f, a) == UpdatedRowsFrom(AllRows(f), a, Fieldnames(f, a.tablekey), 1)

\* (mutant) a record with cells only for the values the row holds
OutRecordHeldOnly(row, names) ==
    LET n == Cardinality({j \in 1..Len(names) : Get(row, names[j]) # NoneCell})
    IN  [j \in 1..n |-> NoneToEmpty(Get(row, names[j]))]

\* the record DictWriter writes for a row: every fieldname, None as ""
OutRecord(row, names) ==
    [j \in 1..Len(names) |-> NoneToEmpty(Get(row, names[j]))]

\* the records of the rewritten file: the header, then every row
OutRecords(f, a) ==
    LET names == Fieldnames(f, a.tablekey)
        rows == UpdatedAllRows(AllRows(f), a)
    IN  <<names>> \o [i \in 1..Len(rows) |-> OutRecord(rows[i], names)]

\* (mutant) the early return is missing
RewritesAlways(updated_rows) == TRUE

\* "if not updated_rows: return []": the file is rewritten only otherwise
Rewrites(updated_rows) == updated_rows # <<>>

\* ------------------------------------------------------------------------
\* The text the model's tables and calls are made of
\* ------------------------------------------------------------------------

ColId == <<"i", "d">>
ColTags == <<"t", "a", "g", "s">>
ColName == <<"n", "a", "m", "e">>
ColExtra == <<"e", "x", "t", "r", "a">>
ColZz == <<"z", "z">>

Val1 == <<"1">>
Val2 == <<"2">>
Val9 == <<"9">>
ValPad1 == <<" ", "1", " ">>
ValX == <<"x">>
ValY == <<"y">>
ValZ == <<"z">>
ValPadX == <<" ", "x">>
ValTrue == <<"t", "r", "u", "e">>
ValArrX == <<"[", "\"", "x", "\"", "]">>
ValArrXY == <<"[", "\"", "x", "\"", ",", " ", "\"", "y", "\"", "]">>
ValArrXX == <<"[", "\"", "x", "\"", ",", "\"", "x", "\"", "]">>
ValNA == <<"N", "A">>
Empty == <<>>

\* the tables a run starts from: with and without the target column, with
\* padded key cells, with a JSON-array cell, with a row shorter than the header,
\* with rows shorter and longer than the header outside the target column
InitFiles == {
    << <<ColId, ColName, ColTags>>, <<Val1>>, <<Val2, ValY, ValX, ValZ>> >>,
    << <<ColId, ColTags>>, <<Val1, Empty>>, <<Val2, ValX>> >>,
    << <<ColId>>, <<Val1>>, <<ValPad1>>, <<Val2>> >>,
    << <<ColId, ColTags>>, <<ValPad1, ValArrXY>>, <<Val1>> >>,
    << <<ColId, ColName, ColTags>>, <<Val1, ValNA, ValArrXX>> >> }

\* the calls of ExtendData a run draws from (extenddata is new_items, the
\* list the code normalises its argument to)
EDArg(keys, vals, new) ==
    [searchkey |-> keys, searchvalues |-> vals, tablekey |-> ColTags,
     extenddata |-> new, json_store |-> TRUE]

EDArgs == {
    EDArg(<<ColId>>, <<Val1>>, <<ValX>>),
    EDArg(<<ColId>>, <<Val1>>, <<ValY>>),
    EDArg(<<ColId>>, <<Val1>>, <<ValTrue>>),
    EDArg(<<ColId>>, <<Val1>>, <<ValArrX>>),
    EDArg(<<ColId>>, <<Val1>>, <<ValPadX>>),
    EDArg(<<ColId>>, <<Val1>>, <<ValY, ValX, ValY>>),
    EDArg(<<ColId>>, <<Val1>>, <<>>),
    EDArg(<<ColId>>, <<ValPad1>>, <<ValZ>>),
    EDArg(<<ColId, ColTags>>, <<Val1, ValX>>, <<ValY>>),
    EDArg(<<ColId, ColZz>>, <<Val1, ValZ>>, <<ValX>>),
    EDArg(<<ColZz>>, <<Empty>>, <<ValX>>),
    EDArg(<<>>, <<>>, <<ValZ>>),
    EDArg(<<ColId>>, <<Val9>>, <<ValX>>),
    [EDArg(<<ColId>>, <<Val2>>, <<ValY>>) EXCEPT !.json_store = FALSE] }

\* how many calls a run makes
MaxCalls == 3

\* the concurrent callers of the step-by-step specifications
Procs == {1, 2}

\* ------------------------------------------------------------------------
\* State
\* ------------------------------------------------------------------------

VARIABLES
    file,   \* the records of the table file on disk
    hist,   \* the calls made so far: arguments, file before and after, result
    pc,     \* per caller: where its step-by-step call of ExtendData stands
    loc,    \* per caller: the locals of that call
    tmp,    \* per caller: the temporary file of that call, when it exists
    formed, \* the file formDataBase writes, when it exists
    users_txt,  \* the usernames saved in the credential store users.txt
    csv_exists  \* whether the table file is on disk (users.csv may not be)

vars == <<file, hist, pc, loc, tmp, formed, users_txt, csv_exists>>

NoLoc == [a |-> <<>>, before |-> <<>>, out |-> <<>>, updated_rows |-> <<>>,
          written |-> 0, failed |-> FALSE]
NoTmp == [exists |-> FALSE, content |-> <<>>]
NoFormed == [exists |-> FALSE, path |-> <<>>, content |-> <<>>]

Init ==
    /\ file \in InitFiles
    /\ hist = <<>>
    /\ pc = [p \in Procs |-> "idle"]
    /\ loc = [p \in Procs |-> NoLoc]
    /\ tmp = [p \in Procs |-> NoTmp]
    /\ formed = NoFormed
    /\ users_txt = {}
    /\ csv_exists = TRUE

\* ------------------------------------------------------------------------
\* ExtendData as one call that meets no I/O failure
\* ------------------------------------------------------------------------

ExtendDataCall(a) ==
    /\ Len(hist) < MaxCalls
    /\ Len(a.searchkey) = Len(a.searchvalues)
    /\ LET updated_rows == UpdatedRows(file, a)
           after == IF Rewrites(updated_rows) THEN OutRecords(file, a) ELSE file
       IN  /\ file' = after
           /\ hist' = Append(hist, [op |-> "ExtendData", args |-> a,
                                    before |-> file, after |-> after,
                                    ret |-> updated_rows])
    /\ UNCHANGED <<pc, loc, tmp, formed, users_txt, csv_exists>>

Next == \E a \in EDArgs : ExtendDataCall(a)

Spec == Init /\ [][Next]_vars

\* ------------------------------------------------------------------------
\* ExtendData step by step: the read, mkstemp, the records written to the
\* temporary file, shutil.move, and the finally block.  open/read sees one
\* version of the file (a rename never changes a file that is open), and
\* everything up to the early return works on locals only.  mkstemp, the
\* writes and the move may each raise.
\* ------------------------------------------------------------------------

\* lines 60-162: validate, read, update in memory, return [] when no row matched
EDRead(p, a) ==
    /\ pc[p] = "idle"
    /\ Len(a.searchkey) = Len(a.searchvalues)
    /\ loc' = [loc EXCEPT ![p] =
                 [a |-> a, before |-> file, out |-> OutRecords(file, a),
                  updated_rows |-> UpdatedRows(file, a),
                  written |-> 0, failed |-> FALSE]]
    /\ pc' = [pc EXCEPT ![p] =
                 IF Rewrites(UpdatedRows(file, a)) THEN "mkstemp" ELSE "done"]
    /\ UNCHANGED <<file, hist, tmp, formed, users_txt, csv_exists>>

\* line 165: tempfile.mkstemp creates an empty file in the table's directory
EDMkstemp(p) ==
    /\ pc[p] = "mkstemp"
    /\ tmp' = [tmp EXCEPT ![p] = [exists |-> TRUE, content |-> <<>>]]
    /\ pc' = [pc EXCEPT ![p] = "write"]
    /\ UNCHANGED <<file, hist, loc, formed, users_txt, csv_exists>>

\* line 165 raising: the call ends before the try block
EDMkstempFail(p) ==
    /\ pc[p] = "mkstemp"
    /\ loc' = [loc EXCEPT ![p].failed = TRUE]
    /\ pc' = [pc EXCEPT ![p] = "done"]
    /\ UNCHANGED <<file, hist, tmp, formed, users_txt, csv_exists>>

\* (mutant) the records are written to the table file itself
EDWriteRecordInPlace(p) ==
    /\ pc[p] = "write"
    /\ loc[p].written < Len(loc[p].out)
    /\ file' = (IF loc[p].written = 0 THEN <<>> ELSE file)
                  \o <<loc[p].out[loc[p].written + 1]>>
    /\ loc' = [loc EXCEPT ![p].written = @ + 1]
    /\ pc' = [pc EXCEPT ![p] =
                 IF loc[p].written + 1 = Len(loc[p].out) THEN "move" ELSE "write"]
    /\ UNCHANGED <<hist, tmp, formed, users_txt, csv_exists>>

\* lines 168-174: writeheader, then one writerow per row; the with block
\* closes the file after the last one
EDWriteRecord(p) ==
    /\ pc[p] = "write"
    /\ loc[p].written < Len(loc[p].out)
    /\ tmp' = [tmp EXCEPT ![p].content =
                 Append(@, loc[p].out[loc[p].written + 1])]
    /\ loc' = [loc EXCEPT ![p].written = @ + 1]
    /\ pc' = [pc EXCEPT ![p] =
                 IF loc[p].written + 1 = Len(loc[p].out) THEN "move" ELSE "write"]
    /\ UNCHANGED <<file, hist, formed, users_txt, csv_exists>>

\* lines 168-174 raising: control passes to the finally block
EDWriteFail(p) ==
    /\ pc[p] = "write"
    /\ loc' = [loc EXCEPT ![p].failed = TRUE]
    /\ pc' = [pc EXCEPT ![p] = "finally"]
    /\ UNCHANGED <<file, hist, tmp, formed, users_txt, csv_exists>>

\* line 176: shutil.move renames the temporary file onto the table
EDMove(p) ==
    /\ pc[p] = "move"
    /\ file' = tmp[p].content
    /\ tmp' = [tmp EXCEPT ![p] = NoTmp]
    /\ pc' = [pc EXCEPT ![p] = "finally"]
    /\ UNCHANGED <<hist, loc, formed, users_txt, csv_exists>>

\* line 176 raising: nothing was renamed
EDMoveFail(p) ==
    /\ pc[p] = "move"
    /\ loc' = [loc EXCEPT ![p].failed = TRUE]
    /\ pc' = [pc EXCEPT ![p] = "finally"]
    /\ UNCHANGED <<file, hist, tmp, formed, users_txt, csv_exists>>

\* (mutant) no cleanup
EDFinallyKeepsTmp(p) ==
    /\ pc[p] = "finally"
    /\ pc' = [pc EXCEPT ![p] = "done"]
    /\ UNCHANGED <<file, hist, loc, tmp, formed, users_txt, csv_exists>>

\* lines 177-185: unlink the temporary file if it still exists, then return
\* updated_rows or let the exception go on
EDFinally(p) ==
    /\ pc[p] = "finally"
    /\ tmp' = [tmp EXCEPT ![p] = IF tmp[p].exists THEN NoTmp ELSE @]
    /\ pc' = [pc EXCEPT ![p] = "done"]
    /\ UNCHANGED <<file, hist, loc, formed, users_txt, csv_exists>>

EDStep(p) ==
    \/ \E a \in EDArgs : EDRead(p, a)
    \/ EDMkstemp(p)
    \/ EDMkstempFail(p)
    \/ EDWriteRecord(p)
    \/ EDWriteFail(p)
    \/ EDMove(p)
    \/ EDMoveFail(p)
    \/ EDFinally(p)

\* one caller
NextSteps == EDStep(1)

SpecSteps == Init /\ [][NextSteps]_vars

\* two callers on the same file
NextRace == \E p \in Procs : EDStep(p)

SpecRace == Init /\ [][NextRace]_vars

\* what a finished call returned: updated_rows, or nothing when it raised
Returned(p) == IF loc[p].failed THEN <<>> ELSE loc[p].updated_rows

\* ------------------------------------------------------------------------
\* The names the table is kept under, and what is on disk beside it
\* ------------------------------------------------------------------------

PathCsv == <<"t", ".", "c", "s", "v">>
PathUpperCsv == <<"T", ".", "C", "S", "V">>
PathTxt == <<"t", ".", "t", "x", "t">>
PathXlsx == <<"b", ".", "x", "l", "s", "x">>
PathJson == <<"d", ".", "j", "s", "o", "n">>
PathMissing == <<"n", "o", ".", "c", "s", "v">>

\* os.path.exists(filepath)
DiskPaths == {PathCsv, PathUpperCsv, PathTxt, PathXlsx, PathJson}

\* str.lower(), on the letters paths are written with
LowerChar(c) ==
    CASE c = "A" -> "a" [] c = "B" -> "b" [] c = "C" -> "c" [] c = "D" -> "d"
      [] c = "E" -> "e" [] c = "F" -> "f" [] c = "G" -> "g" [] c = "H" -> "h"
      [] c = "I" -> "i" [] c = "J" -> "j" [] c = "K" -> "k" [] c = "L" -> "l"
      [] c = "M" -> "m" [] c = "N" -> "n" [] c = "O" -> "o" [] c = "P" -> "p"
      [] c = "Q" -> "q" [] c = "R" -> "r" [] c = "S" -> "s" [] c = "T" -> "t"
      [] c = "U" -> "u" [] c = "V" -> "v" [] c = "W" -> "w" [] c = "X" -> "x"
      [] c = "Y" -> "y" [] c = "Z" -> "z" [] OTHER -> c

Lower(s) == [i \in 1..Len(s) |-> LowerChar(s[i])]

\* str.rfind(ch) + 1
LastPos(s, ch) ==
    IF \E i \in 1..Len(s) : s[i] = ch
    THEN CHOOSE i \in 1..Len(s) : s[i] = ch /\ \A j \in (i + 1)..Len(s) : s[j] # ch
    ELSE 0

\* os.path.splitext(p)[1]: from the last dot of the last path component,
\* unless that component has only dots before it
SplitExt(p) ==
    LET sep == LastPos(p, "/")
        dot == LastPos(p, ".")
    IN  IF dot > sep /\ (\E i \in (sep + 1)..(dot - 1) : p[i] # ".")
        THEN SubSeq(p, dot, Len(p))
        ELSE <<>>

\* ------------------------------------------------------------------------
\* writeDataBase on a CSV file, as pandas reads and writes it.  The tables
\* of the model have distinct non-empty column names, no record longer than
\* the header and no cell holding ; | or a tab, so read_csv keeps the column
\* names and the delimiter detected is the comma the file is written with.
\* ------------------------------------------------------------------------

\* the strings pd.read_csv takes for missing values (its default na_values,
\* which dtype=str does not switch off)
PandasNaValues == {
    <<>>,
    <<"#", "N", "/", "A">>,
    <<"#", "N", "/", "A", " ", "N", "/", "A">>,
    <<"#", "N", "A">>,
    <<"-", "1", ".", "#", "I", "N", "D">>,
    <<"-", "1", ".", "#", "Q", "N", "A", "N">>,
    <<"-", "N", "a", "N">>,
    <<"-", "n", "a", "n">>,
    <<"1", ".", "#", "I", "N", "D">>,
    <<"1", ".", "#", "Q", "N", "A", "N">>,
    <<"<", "N", "A", ">">>,
    <<"N", "/", "A">>,
    <<"N", "A">>,
    <<"N", "U", "L", "L">>,
    <<"N", "a", "N">>,
    <<"N", "o", "n", "e">>,
    <<"n", "/", "a">>,
    <<"n", "a", "n">>,
    <<"n", "u", "l", "l">> }

\* a missing value in a DataFrame
NaN == <<"<NaN>">>

\* a cell as read_csv yields it
ReadCsvCell(cell) == IF cell \in PandasNaValues THEN NaN ELSE cell

\* the python engine of read_csv skips a line that has no field, or one
\* field that is empty once stripped
PandasKeepsLine(rec) == Len(rec) > 1 \/ (Len(rec) = 1 /\ Strip(rec[1]) # <<>>)

PandasLines(f) == SelectSeq(f, PandasKeepsLine)

\* existing_cols
ExistingCols(f) == PandasLines(f)[1]

\* the rows of existing_df: blank lines skipped, short records filled with NaN
ExistingRows(f) ==
    LET recs == Tail(PandasLines(f))
        width == Len(ExistingCols(f))
    IN  [i \in 1..Len(recs) |->
            [c \in 1..width |->
                IF c <= Len(recs[i]) THEN ReadCsvCell(recs[i][c]) ELSE NaN]]

\* read_csv parses the file: it has a header, and no record is longer than it
PandasReads(f) ==
    /\ PandasLines(f) # <<>>
    /\ \A i \in 1..Len(PandasLines(f)) :
          Len(PandasLines(f)[i]) <= Len(ExistingCols(f))

\* what pd.read_csv raises, on the utf-8 attempt and again on the latin1
\* one, so that writeDataBase raises it: a file with no line to take the
\* columns from, or a record longer than the header ("none": it reads).
\* The tables of the model hold no long record right after the header,
\* which pandas would read as a row that begins with an index cell.
PandasReadError(f) ==
    IF PandasLines(f) = <<>> THEN "EmptyDataError"
    ELSE IF ~PandasReads(f) THEN "ParserError"
    ELSE "none"

\* (mutant) the incoming cells are taken by position, not by column name
NewRowByPosition(existing_cols, head, row) ==
    [c \in 1..Len(existing_cols) |-> IF c <= Len(row) THEN row[c] ELSE <<>>]

\* new_row: by column of the existing table, the incoming value under that
\* name (head_index keeps the last index of a name) or ""
NewRow(existing_cols, head, row) ==
    [c \in 1..Len(existing_cols) |->
        IF InSeq(existing_cols[c], head)
        THEN row[LastIndex(head, existing_cols[c])]
        ELSE <<>>]

\* fillna("")
FillNa(cell) == IF cell = NaN THEN <<>> ELSE cell

\* combined_df after concat, reindex and fillna, as rows of strings
CombinedRows(f, head, data) ==
    LET combined == ExistingRows(f)
                      \o [k \in 1..Len(data) |-> NewRow(ExistingCols(f), head, data[k])]
    IN  [i \in 1..Len(combined) |->
            [c \in 1..Len(combined[i]) |-> FillNa(combined[i][c])]]

\* the tables writeDataBase is called on
WriteInitFiles == {
    << <<ColId, ColName>>, <<Val1, ValX>> >>,
    << <<ColId, ColName>>, <<Val1, ValNA>>, <<Val2, ValY>> >>,
    << <<ColId, ColName, ColTags>> >>,
    << <<ColId, ColName>>, <<Val1>> >>,
    << <<ColId>>, <<Val1>> >>,
    <<>> }

\* the calls of writeDataBase a run draws from
WDArg(head, data) == [filepath |-> PathCsv, head |-> head, data |-> data]

WDArgs == {
    WDArg(<<ColId, ColExtra>>, << <<Val1, ValZ>> >>),
    WDArg(<<ColName, ColId>>, << <<ValY, Val2>>, <<ValX, Val9>> >>),
    WDArg(<<ColId>>, <<>>),
    WDArg(<<ColExtra>>, << <<ValZ>> >>),
    WDArg(<<ColName>>, << <<ValNA>> >>),
    [WDArg(<<ColId, ColExtra>>, << <<Val1, ValZ>> >>) EXCEPT !.filepath = PathUpperCsv],
    [WDArg(<<ColId, ColExtra>>, << <<Val1, ValZ>> >>) EXCEPT !.filepath = PathMissing],
    [WDArg(<<ColId, ColExtra>>, << <<Val1, ValZ>> >>) EXCEPT !.filepath = PathJson],
    [WDArg(<<ColId>>, << <<Val9>> >>) EXCEPT !.filepath = PathTxt],
    WDArg(<<ColId, ColName>>, << <<Val1, ValX>>, <<Val2>> >>),
    WDArg(<<ColId>>, << <<Val1>>, <<Val2, ValX>> >>),
    [WDArg(<<ColId>>, << <<Val1, ValX>> >>) EXCEPT !.filepath = PathMissing] }

\* the extensions writeDataBase accepts
WriteSuffixes == {<<".", "c", "s", "v">>, <<".", "x", "l", "s", "x">>, <<".", "x", "l", "s">>}

\* (mutant) the extension is not looked at
WriteDataBaseErrorAnySuffix(a) ==
    IF a.filepath \notin DiskPaths THEN "FileNotFoundError"
    ELSE IF \E k \in 1..Len(a.data) : Len(a.data[k]) # Len(a.head)
    THEN "ValueError: row length"
    ELSE "none"

\* what writeDataBase raises before it reads the file ("none": nothing)
WriteDataBaseError(a) ==
    IF a.filepath \notin DiskPaths THEN "FileNotFoundError"
    ELSE IF \E k \in 1..Len(a.data) : Len(a.data[k]) # Len(a.head)
    THEN "ValueError: row length"
    ELSE IF Lower(SplitExt(a.filepath)) \notin WriteSuffixes
    THEN "ValueError: unsupported format"
    ELSE "none"

InitWrite ==
    /\ file \in WriteInitFiles
    /\ hist = <<>>
    /\ pc = [p \in Procs |-> "idle"]
    /\ loc = [p \in Procs |-> NoLoc]
    /\ tmp = [p \in Procs |-> NoTmp]
    /\ formed = NoFormed
    /\ users_txt = {}
    /\ csv_exists = TRUE

\* writeDataBase(filepath, head, data): rejected before the file is read,
\* stopped by the error of the read, or carried out on the table read (its
\* zero-column branch is the one of an empty sheet of a workbook; of a CSV
\* file read_csv gives at least one column or raises)
WriteDataBaseCall(a) ==
    /\ Len(hist) < MaxCalls
    /\ IF WriteDataBaseError(a) # "none"
       THEN /\ file' = file
            /\ hist' = Append(hist, [op |-> "writeDataBase", args |-> a,
                                     before |-> file, after |-> file,
                                     ret |-> [head |-> <<>>, data |-> <<>>],
                                     raised |-> WriteDataBaseError(a)])
       ELSE IF PandasReadError(file) # "none"
       THEN /\ file' = file
            /\ hist' = Append(hist, [op |-> "writeDataBase", args |-> a,
                                     before |-> file, after |-> file,
                                     ret |-> [head |-> <<>>, data |-> <<>>],
                                     raised |-> PandasReadError(file)])
       ELSE LET zero == Len(ExistingCols(file)) = 0
                cols == IF zero THEN a.head ELSE ExistingCols(file)
                rows == IF zero THEN a.data
                        ELSE CombinedRows(file, a.head, a.data)
                after == <<cols>> \o rows
            IN  /\ file' = after
                /\ hist' = Append(hist, [op |-> "writeDataBase", args |-> a,
                                         before |-> file, after |-> after,
                                         ret |-> [head |-> cols, data |-> rows],
                                         raised |-> "none"])
    /\ UNCHANGED <<pc, loc, tmp, formed, users_txt, csv_exists>>

NextWrite == \E a \in WDArgs : WriteDataBaseCall(a)

SpecWrite == InitWrite /\ [][NextWrite]_vars

\* ------------------------------------------------------------------------
\* readDataBase.  The table is kept under several names: as CSV text (.csv,
\* .CSV, .txt) and as the active sheet of a workbook (.xlsx); a file of
\* another kind lies beside it.  In CSV text the cells of the model hold no
\* delimiter, quote or line break, so a record is the list of its cells.
\* ------------------------------------------------------------------------

XlsxExts == {<<".", "x", "l", "s", "x">>, <<".", "x", "l", "s", "m">>, <<".", "x", "l", "t", "x">>, <<".", "x", "l", "t", "m">>}
CsvExts == {<<".", "c", "s", "v">>, <<".", "t", "x", "t">>}

LogMark == <<"_", "_", "L", "O", "G", "_", "_">>
LogSep == <<" ", "|", " ">>

MsgInvalidPath == <<"i", "n", "v", "a", "l", "i", "d", " ", "f", "i", "l", "e", "p", "a", "t", "h", " ", "a", "r", "g", "u", "m", "e", "n", "t">>
MsgNotFound(filepath) == <<"f", "i", "l", "e", " ", "n", "o", "t", " ", "f", "o", "u", "n", "d", ":", " ">> \o filepath
MsgCsvEmpty == <<"c", "s", "v", " ", "a", "p", "p", "e", "a", "r", "s", " ", "e", "m", "p", "t", "y", ":", " ", "n", "o", " ", "h", "e", "a", "d", "e", "r", " ", "f", "o", "u", "n", "d">>
MsgXlsxEmpty == <<"x", "l", "s", "x", " ", "a", "p", "p", "e", "a", "r", "s", " ", "e", "m", "p", "t", "y", ":", " ", "n", "o", " ", "h", "e", "a", "d", "e", "r", " ", "f", "o", "u", "n", "d">>
MsgUnsupported(ext) == <<"u", "n", "s", "u", "p", "p", "o", "r", "t", "e", "d", " ", "f", "i", "l", "e", " ", "e", "x", "t", "e", "n", "s", "i", "o", "n", ":", " ">> \o ext
\* (mutant) the message does not name the key
MsgColumnKeyUnnamed(k) == <<"c", "o", "l", "u", "m", "n", "K", "e", "y">> \o <<" ", "n", "o", "t", " ", "f", "o", "u", "n", "d", " ", "i", "n", " ", "h", "e", "a", "d", "e", "r">>
MsgColumnKey(k) == <<"c", "o", "l", "u", "m", "n", "K", "e", "y", " ", "'">> \o k \o <<"'", " ", "n", "o", "t", " ", "f", "o", "u", "n", "d", " ", "i", "n", " ", "h", "e", "a", "d", "e", "r">>
MsgSecondKey(k) == <<"s", "e", "c", "o", "n", "d", "C", "o", "l", "u", "m", "n", "K", "e", "y", " ", "'">> \o k \o <<"'", " ", "n", "o", "t", " ", "f", "o", "u", "n", "d", " ", "i", "n", " ", "h", "e", "a", "d", "e", "r">>

\* (mutant) an empty list where the log-only result is returned
LogOnlyEmpty(msg) == <<>>

\* the log-only result [["__LOG__", msg]]
LogOnly(msg) == << <<LogMark, msg>> >>

\* _append_log_and_return
AppendLogAndReturn(rows, logs) ==
    IF logs # <<>> THEN Append(rows, <<LogMark, Join(logs, LogSep)>>) ELSE rows

\* _to_str_row
ToStrRow(row) == [c \in 1..Len(row) |-> IF row[c] = NoneCell THEN <<>> ELSE row[c]]

\* csv.Sniffer().sniff finds the delimiter when every line of the sample
\* has the same number of commas, and at least one.  A blank line counts as
\* a line without a comma when lines end in \r\n, as the csv module writes
\* them; the tables of the model that have a blank line hold no cell that
\* begins with a space, the one thing the dialect changes.
SniffSucceeds(f) ==
    /\ f # <<>>
    /\ Len(f[1]) >= 2
    /\ \A i \in 1..Len(f) : Len(f[i]) = Len(f[1])

\* skipinitialspace of the dialect: sniffed as "every comma of the first
\* line is followed by a space", and set in the fallback SimpleDialect
SkipInitialSpace(f) ==
    IF SniffSucceeds(f)
    THEN \A c \in 2..Len(f[1]) : f[1][c] # <<>> /\ f[1][c][1] = " "
    ELSE TRUE

RECURSIVE SkipSpaces(_)
SkipSpaces(s) == IF s # <<>> /\ Head(s) = " " THEN SkipSpaces(Tail(s)) ELSE s

\* list(csv.reader(fh, dialect)): the records of the file as the sniffed
\* dialect yields them
CsvReaderRows(f) ==
    [i \in 1..Len(f) |->
        [c \in 1..Len(f[i]) |->
            IF SkipInitialSpace(f) THEN SkipSpaces(f[i][c]) ELSE f[i][c]]]

\* ws.iter_rows(values_only=True): every row as wide as the sheet, None in
\* the cells that hold nothing
SheetWidth(f) ==
    IF f = <<>> THEN 0
    ELSE CHOOSE w \in {Len(f[i]) : i \in 1..Len(f)} : \A i \in 1..Len(f) : Len(f[i]) <= w

XlsxIterRows(f) ==
    [i \in 1..Len(f) |->
        [c \in 1..SheetWidth(f) |->
            IF c <= Len(f[i]) /\ f[i][c] # <<>> THEN f[i][c] ELSE NoneCell]]

\* any(cell is not None and str(cell).strip() != "" for cell in r)
HasContent(r) == \E c \in 1..Len(r) : r[c] # NoneCell /\ Strip(r[c]) # <<>>

\* (mutant) the first row is the header, blank or not
HeaderPosFirstRow(rows) == IF rows # <<>> THEN 1 ELSE 0

\* the position of the first row with content (0: none)
HeaderPos(rows) ==
    IF \E i \in 1..Len(rows) : HasContent(rows[i])
    THEN CHOOSE i \in 1..Len(rows) :
            HasContent(rows[i]) /\ \A j \in 1..(i - 1) : ~HasContent(rows[j])
    ELSE 0

\* the rows after position n
RowsAfter(rows, n) == SubSeq(rows, n + 1, Len(rows))

\* (mutant) start is not looked at: the rows are collected from the first
WindowIgnoresStart(rows, start, amount) ==
    SubSeq(rows, 1, IF amount = <<>> \/ amount[1] >= Len(rows) THEN Len(rows)
                    ELSE IF amount[1] <= 0 THEN 0 ELSE amount[1])

\* (mutant) amount is not looked at
WindowIgnoresAmount(rows, start, amount) ==
    SubSeq(rows, (IF start = <<>> \/ start[1] < 0 THEN 0 ELSE start[1]) + 1, Len(rows))

\* the loop over the data rows: skip the first (start or 0), then collect
\* up to amount (all of them when amount is None)
Window(rows, start, amount) ==
    LET skip == IF start = <<>> \/ start[1] < 0 THEN 0 ELSE start[1]
        last == IF amount = <<>> THEN Len(rows)
                ELSE IF amount[1] <= 0 THEN skip
                ELSE IF skip + amount[1] < Len(rows) THEN skip + amount[1]
                ELSE Len(rows)
    IN  SubSeq(rows, skip + 1, last)

\* (mutant) the width of the header alone
MaxColsOfHeader(header, rows) == Len(header)

\* max_cols
MaxCols(header, rows) ==
    CHOOSE w \in {Len(header)} \cup {Len(rows[i]) : i \in 1..Len(rows)} :
        /\ w >= Len(header)
        /\ \A i \in 1..Len(rows) : w >= Len(rows[i])

\* r + [""] * (max_cols - len(r))
PadTo(r, w) == [c \in 1..w |-> IF c <= Len(r) THEN r[c] ELSE <<>>]

\* list.index(k) + 1
FirstIndex(names, k) ==
    CHOOSE i \in 1..Len(names) : names[i] = k /\ \A j \in 1..(i - 1) : names[j] # k

\* (mutant) the cell is trimmed before it is compared
MatchedRowsTrimmed(normalized_rows, col_idx, fieldValue) ==
    IF col_idx = 0 THEN <<>>
    ELSE SelectSeq(normalized_rows, LAMBDA r : Strip(r[col_idx]) = fieldValue)

\* the rows of normalized_rows whose cell at col_idx is fieldValue
MatchedRows(normalized_rows, col_idx, fieldValue) ==
    IF col_idx = 0 THEN <<>>
    ELSE SelectSeq(normalized_rows, LAMBDA r : r[col_idx] = fieldValue)

\* (mutant) the whole row
ProjectNothing(rows, idx) == rows

\* one cell of every row
Project(rows, idx) == [i \in 1..Len(rows) |-> <<rows[i][idx]>>]

\* the columnKey / fieldValue / secondColumnKey logic on normalized_rows
ApplyKeys(a, header, normalized_rows) ==
    LET col_missing == a.columnKey # NoneCell /\ ~InSeq(a.columnKey, header)
        second_missing ==
            a.secondColumnKey # NoneCell /\ ~InSeq(a.secondColumnKey, header)
        logs == (IF col_missing THEN <<MsgColumnKey(a.columnKey)>> ELSE <<>>)
                  \o (IF second_missing THEN <<MsgSecondKey(a.secondColumnKey)>>
                      ELSE <<>>)
        col_idx == IF a.columnKey # NoneCell /\ ~col_missing
                   THEN FirstIndex(header, a.columnKey) ELSE 0
        second_idx == IF a.secondColumnKey # NoneCell /\ ~second_missing
                      THEN FirstIndex(header, a.secondColumnKey) ELSE 0
        matched == MatchedRows(normalized_rows, col_idx, a.fieldValue)
        final ==
            IF a.columnKey # NoneCell /\ a.fieldValue = NoneCell
            THEN << <<a.columnKey>> >>
                   \o (IF col_idx = 0 THEN <<>> ELSE Project(normalized_rows, col_idx))
            ELSE IF a.columnKey # NoneCell
            THEN IF a.secondColumnKey # NoneCell
                 THEN << <<a.secondColumnKey>> >>
                        \o (IF second_idx = 0 THEN <<>> ELSE Project(matched, second_idx))
                 ELSE <<header>> \o matched
            ELSE <<header>> \o normalized_rows
    IN  AppendLogAndReturn(final, logs)

\* readDataBase(filepath, start, amount, columnKey, fieldValue,
\* secondColumnKey, header_override) when the table on disk is f.  None is
\* NoneCell for a string, <<>> for start, amount and header_override.
ReadDataBase(a, f) ==
    IF a.filepath = NoneCell \/ a.filepath = <<>>
    THEN LogOnly(MsgInvalidPath)
    ELSE IF a.filepath \notin DiskPaths
    THEN LogOnly(MsgNotFound(a.filepath))
    ELSE
    LET ext == SplitExt(Lower(a.filepath))
    IN  IF ext \notin XlsxExts \cup CsvExts
        THEN AppendLogAndReturn(LogOnly(MsgUnsupported(ext)), <<MsgUnsupported(ext)>>)
        ELSE
        LET grid == IF ext \in XlsxExts THEN XlsxIterRows(f) ELSE CsvReaderRows(f)
            empty == IF ext \in XlsxExts THEN MsgXlsxEmpty ELSE MsgCsvEmpty
            hp == IF a.header_override # <<>> THEN 0 ELSE HeaderPos(grid)
        IN  IF a.header_override = <<>> /\ hp = 0
            THEN AppendLogAndReturn(LogOnly(empty), <<empty>>)
            ELSE
            LET header == IF a.header_override # <<>> THEN a.header_override
                          ELSE ToStrRow(grid[hp])
                data_rows == [i \in 1..(Len(grid) - hp) |->
                                 ToStrRow(RowsAfter(grid, hp)[i])]
                windowed == Window(data_rows, a.start, a.amount)
                max_cols == MaxCols(header, windowed)
            IN  ApplyKeys(a, PadTo(header, max_cols),
                          [i \in 1..Len(windowed) |-> PadTo(windowed[i], max_cols)])

ValA == <<"a">>
ValB == <<"b">>
ValPadA == <<" ", "a">>
ValATrail == <<"a", " ">>
ValLead1 == <<" ", "1">>

\* the tables readDataBase is called on: the table of the filter scenario,
\* one with short and long rows, one with blank lines, one with a cell that
\* begins with a space, one of a single column, one of a header only and
\* the empty file
ReadInitFiles == {
    << <<ColId, ColName>>, <<Val1, ValA>>, <<Val2, ValB>> >>,
    << <<ColId, ColName>>, <<Val1, ValA>>, <<Val2>>, <<Val9, ValA, ValZ>>,
       <<Val2, ValATrail>> >>,
    << <<>>, <<ColId, ColName>>, <<Val1, ValA>>, <<>>, <<Val2, ValB>> >>,
    << <<ColId, ColName>>, <<Val1, ValPadA>>, <<Val2, ValA>>, <<Val9, ValA>> >>,
    << <<ColId>>, <<ValLead1>>, <<Val1>> >>,
    << <<ColId, ColName>> >>,
    <<>> }

\* the calls of readDataBase a run draws from
RDArg(filepath, start, amount, columnKey, fieldValue, secondColumnKey) ==
    [filepath |-> filepath, start |-> start, amount |-> amount,
     columnKey |-> columnKey, fieldValue |-> fieldValue,
     secondColumnKey |-> secondColumnKey, header_override |-> <<>>]

\* start and amount: the defaults, None, and windows that end inside the
\* table, begin at its end or beyond it, or take nothing
RDWindows == {
    << <<0>>, <<10000>> >>, << <<>>, <<>> >>, << <<1>>, <<1>> >>,
    << <<1>>, <<2>> >>, << <<2>>, <<10000>> >>, << <<5>>, <<10000>> >>,
    << <<0>>, <<0>> >> }

\* columnKey, fieldValue, secondColumnKey
RDModes == {
    <<NoneCell, NoneCell, NoneCell>>,
    <<ColName, NoneCell, NoneCell>>,
    <<ColId, NoneCell, NoneCell>>,
    <<ColZz, NoneCell, NoneCell>>,
    <<ColName, ValA, NoneCell>>,
    <<ColName, ValPadA, NoneCell>>,
    <<ColId, Val1, NoneCell>>,
    <<ColZz, ValA, NoneCell>>,
    <<ColName, ValA, ColId>>,
    <<ColName, ValA, ColZz>>,
    <<ColZz, ValA, ColId>>,
    <<NoneCell, NoneCell, ColZz>>,
    <<ColName, NoneCell, ColZz>>,
    <<NoneCell, ValA, NoneCell>> }

RDDefault(filepath) ==
    RDArg(filepath, <<0>>, <<10000>>, NoneCell, NoneCell, NoneCell)

RDArgs ==
    {RDArg(PathCsv, w[1], w[2], m[1], m[2], m[3]) : w \in RDWindows, m \in RDModes}
    \cup {RDDefault(p) : p \in {NoneCell, <<>>, PathMissing, PathJson, PathUpperCsv,
                                PathTxt, PathXlsx}}
    \cup {RDArg(PathXlsx, <<1>>, <<1>>, ColName, ValA, NoneCell),
          RDArg(PathXlsx, <<0>>, <<10000>>, ColName, NoneCell, NoneCell),
          RDArg(PathXlsx, <<0>>, <<10000>>, ColZz, ValA, ColId),
          [RDDefault(PathCsv) EXCEPT !.header_override = <<ColName, ColId>>],
          [RDDefault(PathCsv) EXCEPT !.header_override = <<ColId, ColName, ColTags>>,
                                     !.columnKey = ColTags],
          [RDDefault(PathXlsx) EXCEPT !.header_override = <<ColName, ColId>>]}

\* how many reads a run makes
MaxReads == 1

InitRead ==
    /\ file \in ReadInitFiles
    /\ hist = <<>>
    /\ pc = [p \in Procs |-> "idle"]
    /\ loc = [p \in Procs |-> NoLoc]
    /\ tmp = [p \in Procs |-> NoTmp]
    /\ formed = NoFormed
    /\ users_txt = {}
    /\ csv_exists = TRUE

\* readDataBase(...) on the table on disk
ReadDataBaseCall(a) ==
    /\ Len(hist) < MaxReads
    /\ hist' = Append(hist, [op |-> "readDataBase", args |-> a,
                             before |-> file, after |-> file,
                             ret |-> ReadDataBase(a, file), exc |-> <<>>])
    /\ UNCHANGED <<file, pc, loc, tmp, formed, users_txt, csv_exists>>

\* repr(exc) of the exceptions opening or parsing the file can raise inside
\* the try block: a workbook that is no zip archive, a file the process may
\* not read, a CSV file that is not UTF-8
ExcBadZipFile == <<"B", "a", "d", "Z", "i", "p", "F", "i", "l", "e", "(", "'", "F", "i", "l", "e", " ", "i", "s", " ", "n", "o", "t", " ", "a", " ", "z", "i", "p", " ", "f", "i", "l", "e", "'", ")">>
ExcPermission == <<"P", "e", "r", "m", "i", "s", "s", "i", "o", "n", "E", "r", "r", "o", "r", "(", "1", "3", ",", " ", "'", "P", "e", "r", "m", "i", "s", "s", "i", "o", "n", " ", "d", "e", "n", "i", "e", "d", "'", ")">>
ExcDecode == <<"U", "n", "i", "c", "o", "d", "e", "D", "e", "c", "o", "d", "e", "E", "r", "r", "o", "r", "(", "'", "u", "t", "f", "-", "8", "'", ",", " ", "b", "'", "\\", "x", "f", "f", "'", ",", " ", "0", ",", " ", "1", ",", " ", "'", "i", "n", "v", "a", "l", "i", "d", " ", "s", "t", "a", "r", "t", " ", "b", "y", "t", "e", "'", ")">>

ReadFailures(a) ==
    IF SplitExt(Lower(a.filepath)) \in XlsxExts
    THEN {ExcBadZipFile, ExcPermission}
    ELSE {ExcDecode, ExcPermission}

\* traceback.format_exc(limit=5) with its newlines replaced, cut after its
\* first line (the frames and the closing line are left out)
TraceHead == <<"T", "r", "a", "c", "e", "b", "a", "c", "k", " ", "(", "m", "o", "s", "t", " ", "r", "e", "c", "e", "n", "t", " ", "c", "a", "l", "l", " ", "l", "a", "s", "t", ")", ":", " ", "|", " ">>

MsgUnexpected == <<"u", "n", "e", "x", "p", "e", "c", "t", "e", "d", " ", "e", "r", "r", "o", "r", ":", " ">>
MsgTrace == <<"t", "r", "a", "c", "e", ":", " ">>

\* (mutant) the exception leaves readDataBase: the caller gets no list
UnexpectedErrorRaised(exc) == <<>>

\* the except branch: both log texts joined, in a result of one log row
UnexpectedError(exc) ==
    LogOnly(Join(<<MsgUnexpected \o exc, MsgTrace \o TraceHead>>, LogSep))

\* readDataBase(...) when opening or parsing the file raises exc: the
\* path checks before the try block have passed and no log was collected
ReadDataBaseRaises(a, exc) ==
    /\ Len(hist) < MaxReads
    /\ a.filepath # NoneCell /\ a.filepath \in DiskPaths
    /\ SplitExt(Lower(a.filepath)) \in XlsxExts \cup CsvExts
    /\ exc \in ReadFailures(a)
    /\ hist' = Append(hist, [op |-> "readDataBase", args |-> a,
                             before |-> file, after |-> file,
                             ret |-> UnexpectedError(exc), exc |-> exc])
    /\ UNCHANGED <<file, pc, loc, tmp, formed, users_txt, csv_exists>>

\* the calls during which a failure is injected
RDRaiseArgs == {
    RDDefault(PathCsv), RDDefault(PathXlsx),
    RDArg(PathCsv, <<1>>, <<1>>, ColName, ValA, NoneCell) }

NextRead ==
    \/ \E a \in RDArgs : ReadDataBaseCall(a)
    \/ \E a \in RDRaiseArgs : \E exc \in {ExcBadZipFile, ExcPermission, ExcDecode} :
            ReadDataBaseRaises(a, exc)

SpecRead == InitRead /\ [][NextRead]_vars

\* ------------------------------------------------------------------------
\* formDataBase on a CSV file.  pd.read_csv is called with its defaults, so
\* it infers the type of every column; the tables of the model have
\* distinct non-empty column names, two columns or more, no record longer
\* than the header, and cells that are "", a missing-value string, a
\* numeral written in digits without leading zero, or a word that is no
\* number or truth value.
\* ------------------------------------------------------------------------

ColUpperName == <<"N", "a", "m", "e">>
ColTitle == <<"t", "i", "t", "l", "e">>
ColUpperId == <<"I", "D">>
DotCsv == <<".", "c", "s", "v">>
DotXlsx == <<".", "x", "l", "s", "x">>
NameOut == <<"o", "u", "t">>
NameOutCsv == <<"o", "u", "t", ".", "c", "s", "v">>
NameTable == <<"t">>

\* the cell parses as an integer
IsIntCell(cell) == cell # <<>> /\ \A k \in 1..Len(cell) : cell[k] \in Digits

\* a column of df, as to_csv writes it back: a column of integers with a
\* missing value is a column of floats, a missing value is written as ""
WrittenColumn(cells) ==
    LET present == {i \in 1..Len(cells) : cells[i] # NaN}
        floats == /\ present # {}
                  /\ present # 1..Len(cells)
                  /\ \A i \in present : IsIntCell(cells[i])
    IN  [i \in 1..Len(cells) |->
            IF cells[i] = NaN THEN <<>>
            ELSE IF floats THEN cells[i] \o <<".", "0">>
            ELSE cells[i]]

\* df[col], by the position of col among df.columns
DfColumn(f, c) == [i \in 1..Len(ExistingRows(f)) |-> ExistingRows(f)[i][c]]

\* synonym_to_header[name]: the standard header of the last synonym equal
\* to name once lowercased ("": name is no synonym); headkeys is the list
\* of the items of the dict, <<standard_header, synonyms>>
RECURSIVE SynonymToHeader(_, _)
SynonymToHeader(headkeys, name) ==
    IF headkeys = <<>> THEN <<>>
    ELSE LET last == headkeys[Len(headkeys)]
         IN  IF \E s \in 1..Len(last[2]) : Lower(last[2][s]) = name
             THEN last[1]
             ELSE SynonymToHeader(SubSeq(headkeys, 1, Len(headkeys) - 1), name)

IsSynonym(headkeys, name) ==
    \E j \in 1..Len(headkeys) :
        \E s \in 1..Len(headkeys[j][2]) : Lower(headkeys[j][2][s]) = name

\* matched_col: the position of the first column of df that is mapped to
\* standard_header (0: none)
MatchedCol(cols, headkeys, standard_header) ==
    LET mapped == {c \in 1..Len(cols) :
                      /\ IsSynonym(headkeys, Lower(cols[c]))
                      /\ SynonymToHeader(headkeys, Lower(cols[c])) = standard_header}
    IN  IF mapped = {} THEN 0
        ELSE CHOOSE c \in mapped : \A d \in mapped : c <= d

\* (mutant) the standard headers in reverse
FormHeaderReversed(headkeys) ==
    [j \in 1..Len(headkeys) |-> headkeys[Len(headkeys) + 1 - j][1]]

\* headkeys.keys(), the columns of new_df
FormHeader(headkeys) == [j \in 1..Len(headkeys) |-> headkeys[j][1]]

\* new_df as to_csv writes it: it has the rows of df once a column of df
\* was assigned to it, and none when no column matched
FormRecords(f, headkeys) ==
    LET cols == ExistingCols(f)
        any == \E j \in 1..Len(headkeys) : MatchedCol(cols, headkeys, headkeys[j][1]) # 0
        n == IF any THEN Len(ExistingRows(f)) ELSE 0
    IN  <<FormHeader(headkeys)>>
          \o [i \in 1..n |->
                [j \in 1..Len(headkeys) |->
                    IF MatchedCol(cols, headkeys, headkeys[j][1]) = 0 THEN <<>>
                    ELSE WrittenColumn(
                           DfColumn(f, MatchedCol(cols, headkeys, headkeys[j][1])))[i]]]

\* new_filepath
NewFilepath(newfilename) ==
    IF Len(newfilename) >= Len(DotCsv)
       /\ SubSeq(newfilename, Len(newfilename) - Len(DotCsv) + 1, Len(newfilename)) = DotCsv
    THEN newfilename
    ELSE newfilename \o DotCsv

\* what formDataBase raises ("none": nothing)
FormDataBaseError(a, f) ==
    IF Lower(SplitExt(a.filepath)) \notin {DotCsv, DotXlsx}
    THEN "ValueError: unsupported format"
    ELSE IF a.filepath \notin DiskPaths THEN "FileNotFoundError"
    ELSE IF ~PandasReads(f) THEN "pandas error"
    ELSE "none"

\* the tables formDataBase is called on
FormInitFiles == {
    << <<ColId, ColUpperName, ColExtra>>, <<Val1, ValX, ValZ>>, <<Val2, ValY, ValZ>> >>,
    << <<ColName, ColId>>, <<ValNA, Val1>>, <<ValY, Val2>> >>,
    << <<ColId, ColName>>, <<Val1, ValX>>, <<Empty, ValY>> >>,
    << <<ColTitle, ColName, ColId>>, <<ValX, ValY, Val1>> >>,
    << <<ColExtra, ColZz>>, <<ValZ, ValZ>> >>,
    << <<ColId, ColName>> >>,
    << <<ColId, ColName>>, <<Val1>>, <<Val2, ValY>> >> }

\* the calls of formDataBase a run draws from
FDArg(headkeys, newfilename) ==
    [filepath |-> PathCsv, headkeys |-> headkeys, newfilename |-> newfilename]

FDArgs == {
    FDArg(<< <<ColName, <<ColName, ColTitle>>>>, <<ColId, <<ColId>>>> >>, NameOut),
    FDArg(<< <<ColName, <<ColName, ColTitle>>>>, <<ColId, <<ColId>>>> >>, NameTable),
    FDArg(<< <<ColId, <<ColUpperId>>>> >>, NameOutCsv),
    FDArg(<< <<ColTags, <<ColTags>>>>, <<ColName, <<ColTags>>>> >>, NameOut),
    FDArg(<< <<ColName, <<ColName>>>>, <<ColTitle, <<ColName>>>> >>, NameOut),
    FDArg(<< <<ColTags, <<ColExtra, ColTitle>>>>, <<ColId, <<ColId>>>>,
             <<ColName, <<ColName>>>> >>, NameOut),
    [FDArg(<< <<ColId, <<ColId>>>> >>, NameOut) EXCEPT !.filepath = PathUpperCsv],
    [FDArg(<< <<ColId, <<ColId>>>> >>, NameOut) EXCEPT !.filepath = PathTxt],
    [FDArg(<< <<ColId, <<ColId>>>> >>, NameOut) EXCEPT !.filepath = PathMissing] }

InitForm ==
    /\ file \in FormInitFiles
    /\ hist = <<>>
    /\ pc = [p \in Procs |-> "idle"]
    /\ loc = [p \in Procs |-> NoLoc]
    /\ tmp = [p \in Procs |-> NoTmp]
    /\ formed = NoFormed
    /\ users_txt = {}
    /\ csv_exists = TRUE

\* formDataBase(filepath, headkeys, newfilename): raises, or writes the
\* new table to new_filepath, which may be the file it read
FormDataBaseCall(a) ==
    /\ Len(hist) < MaxCalls
    /\ LET err == FormDataBaseError(a, file)
           out == IF err = "none" THEN FormRecords(file, a.headkeys) ELSE <<>>
           path == NewFilepath(a.newfilename)
           after == IF err = "none" /\ path = a.filepath THEN out ELSE file
       IN  /\ file' = after
           /\ formed' = IF err = "none" /\ path # a.filepath
                        THEN [exists |-> TRUE, path |-> path, content |-> out]
                        ELSE formed
           /\ hist' = Append(hist, [op |-> "formDataBase", args |-> a,
                                    before |-> file, after |-> after,
                                    ret |-> path, out |-> out, raised |-> err])
    /\ UNCHANGED <<pc, loc, tmp, users_txt, csv_exists>>

NextForm == \E a \in FDArgs : FormDataBaseCall(a)

SpecForm == InitForm /\ [][NextForm]_vars

\* ------------------------------------------------------------------------
\* api_auth_write (registration): the credential store users.txt and the
\* table users.csv, which the variable file holds once it is on disk.  No
\* cell of the model holds ; | or a tab, so writeDataBase reads users.csv
\* with the comma.
\* ------------------------------------------------------------------------

\* head
AuthHead == <<<<"u", "s", "e", "r", "n", "a", "m", "e">>, <<"n", "a", "m", "e">>, <<"s", "u", "r", "n", "a", "m", "e">>, <<"p", "a", "t", "r", "o", "n", "y", "m">>, <<"b", "i", "r", "t", "h", "d", "a", "t", "e">>,
              <<"p", "l", "a", "c", "e">>, <<"s", "t", "a", "t", "u", "s">>, <<"r", "e", "q", "u", "e", "s", "t">>, <<"j", "s", "o", "n", "_", "l", "o", "g">>>>

\* _clean
Clean(val) ==
    IF val = NoneCell THEN <<>>
    ELSE Strip([i \in 1..Len(val) |->
                   IF val[i] \in {"\r", "\n"} THEN " " ELSE val[i]])

\* canonical_row
CanonicalRow(req) ==
    <<Clean(req.username), Clean(req.name), Clean(req.surname),
      Clean(req.patronym), Clean(req.birthdate), Clean(req.place),
      <<"U", "s", "e", "r">>, <<"0">>, <<"u", "s", "e", "r", "_", "l", "o", "g", "/">> \o Clean(req.username) \o <<".", "j", "s", "o", "n">>>>

\* the HTTP error the registration ends with before it writes anything
\* ("none": it goes on)
RegisterError(req, stored) ==
    IF Clean(req.username) = <<>> \/ req.password = <<>>
       \/ Clean(req.name) = <<>> \/ Clean(req.surname) = <<>>
    THEN "400"
    ELSE IF Clean(req.username) \in stored THEN "409"
    ELSE "none"

\* users.csv after the best-effort writeDataBase(users_csv, head,
\* [canonical_row]): unchanged when the helper raises
AfterHelper(f, exists, row) ==
    IF ~exists \/ PandasReadError(f) # "none" THEN f
    ELSE <<ExistingCols(f)>> \o CombinedRows(f, AuthHead, <<row>>)

\* normalized[:len(head)] == [h.lower() for h in head]
IsFileHeader(r) ==
    /\ Len(r) >= Len(AuthHead)
    /\ \A c \in 1..Len(AuthHead) : Lower(Strip(r[c])) = Lower(AuthHead[c])

\* row_norm
RowNorm(r) == [c \in 1..Len(AuthHead) |-> IF c <= Len(r) THEN Strip(r[c]) ELSE <<>>]

\* filled_count
FilledCount(row) == Cardinality({c \in 2..Len(row) : row[c] # <<>>})

\* the record at position i of the file is read as the row of a user
IsUserRecord(recs, i) ==
    /\ ~(i = 1 /\ IsFileHeader(recs[i]))
    /\ \E c \in 1..Len(recs[i]) : Strip(recs[i][c]) # <<>>
    /\ Strip(recs[i][1]) # <<>>

\* (mutant) every user record is kept, a row per record
UsersMapAllRecords(recs) ==
    LET at == {i \in 1..Len(recs) : IsUserRecord(recs, i)}
    IN  [k \in 1..Cardinality(at) |->
            RowNorm(recs[CHOOSE i \in at : Cardinality({m \in at : m < i}) = k - 1])]

\* the loop over the records: users_map and order as one list of rows, a
\* row per username in the order the names are first seen, the row with
\* the most filled cells kept for each (the earlier one on a tie)
RECURSIVE UsersMapFrom(_, _, _)
UsersMapFrom(recs, i, acc) ==
    IF i > Len(recs) THEN acc
    ELSE IF ~IsUserRecord(recs, i) THEN UsersMapFrom(recs, i + 1, acc)
    ELSE LET row_norm == RowNorm(recs[i])
             seen == {p \in 1..Len(acc) : acc[p][1] = row_norm[1]}
         IN  IF seen = {} THEN UsersMapFrom(recs, i + 1, Append(acc, row_norm))
             ELSE IF FilledCount(row_norm) > FilledCount(acc[CHOOSE p \in seen : TRUE])
             THEN UsersMapFrom(recs, i + 1,
                               [acc EXCEPT ![CHOOSE p \in seen : TRUE] = row_norm])
             ELSE UsersMapFrom(recs, i + 1, acc)

UsersMap(recs) == UsersMapFrom(recs, 1, <<>>)

\* users_map[username] = canonical_row; order.append(username) if new
FinalRows(rows, canonical_row) ==
    IF \E p \in 1..Len(rows) : rows[p][1] = canonical_row[1]
    THEN [p \in 1..Len(rows) |->
            IF rows[p][1] = canonical_row[1] THEN canonical_row ELSE rows[p]]
    ELSE Append(rows, canonical_row)

UserU == <<"u">>
UserV == <<"v">>
UserPadU == <<" ", "u", "\n">>
UserUpperU == <<"U">>
PersonN == <<"n">>
PersonS == <<"s">>
PersonP == <<"p">>

\* a stored row of users.csv
AuthRow(username, name, surname) ==
    <<username, name, surname, <<>>, <<>>, <<>>, <<"U", "s", "e", "r">>, <<"0">>,
      <<"u", "s", "e", "r", "_", "l", "o", "g", "/">> \o username \o <<".", "j", "s", "o", "n">>>>

\* users.csv before the first registration, when it is on disk: rows
\* repeated for one username, cells with spaces around them, a header that
\* is not the canonical one, a header in another case, a blank first line
\* with a record longer than the header, and the empty file
AuthInitFiles == {
    <<AuthHead, <<UserV>>, <<UserU, ValX>>, AuthRow(UserV, PersonN, PersonS),
      <<<<" ", "v">>, PersonN>>, AuthRow(UserUpperU, PersonN, PersonS)>>,
    <<AuthHead, AuthRow(UserU, PersonN, PersonS), AuthRow(UserV, ValNA, PersonS),
      AuthRow(UserU, PersonN, PersonS)>>,
    << <<<<"u", "s", "e", "r", "n", "a", "m", "e">>, <<"n", "a", "m", "e">>>>, <<UserV, PersonN>>, <<UserV, Empty>> >>,
    << [c \in 1..Len(AuthHead) |-> IF c = 1 THEN <<"U", "s", "e", "r", "n", "a", "m", "e">> ELSE AuthHead[c]],
       AuthRow(UserV, PersonN, PersonS), AuthRow(UserV, PersonN, PersonS) >>,
    << <<>>, AuthHead, <<UserV, PersonN>>,
       AuthRow(UserV, PersonN, PersonS) \o <<ValZ>> >>,
    <<>> }

\* the registration requests a run draws from (None is NoneCell)
RegisterRequest(username, password, name, surname, patronym, birthdate, place) ==
    [username |-> username, password |-> password, name |-> name,
     surname |-> surname, patronym |-> patronym, birthdate |-> birthdate,
     place |-> place]

AuthRequests == {
    RegisterRequest(UserU, ValX, PersonN, PersonS, Empty, NoneCell, NoneCell),
    RegisterRequest(UserPadU, ValX, PersonN, PersonS, PersonP, NoneCell, NoneCell),
    RegisterRequest(UserV, ValY, PersonN, PersonS, PersonP, <<"2", "0", "0", "0", "-", "0", "1", "-", "0", "1">>, ValZ),
    RegisterRequest(UserUpperU, ValX, <<" ", "n">>, PersonS, Empty, NoneCell, NoneCell),
    RegisterRequest(<<" ">>, ValX, PersonN, PersonS, Empty, NoneCell, NoneCell),
    RegisterRequest(UserV, Empty, PersonN, PersonS, Empty, NoneCell, NoneCell) }

InitAuth ==
    /\ \/ file \in AuthInitFiles /\ csv_exists = TRUE
       \/ file = <<>> /\ csv_exists = FALSE
    /\ users_txt = {}
    /\ hist = <<>>
    /\ pc = [p \in Procs |-> "idle"]
    /\ loc = [p \in Procs |-> NoLoc]
    /\ tmp = [p \in Procs |-> NoTmp]
    /\ formed = NoFormed

\* POST /api/auth/write that meets no I/O failure: refused with 400 or 409,
\* or the user is saved, the helper is tried and users.csv is rewritten
\* from the rows read back
ApiAuthWrite(req) ==
    /\ Len(hist) < MaxCalls
    /\ LET err == RegisterError(req, users_txt)
           canonical_row == CanonicalRow(req)
           helped == AfterHelper(file, csv_exists, canonical_row)
           final_rows == FinalRows(IF csv_exists THEN UsersMap(helped) ELSE <<>>,
                                   canonical_row)
           after == IF err = "none" THEN <<AuthHead>> \o final_rows ELSE file
       IN  /\ file' = after
           /\ users_txt' = IF err = "none"
                           THEN users_txt \cup {Clean(req.username)} ELSE users_txt
           /\ csv_exists' = (csv_exists \/ err = "none")
           /\ hist' = Append(hist, [op |-> "api_auth_write", args |-> req,
                                    before |-> file, existed |-> csv_exists,
                                    after |-> after,
                                    status |-> IF err = "none" THEN "200" ELSE err])
    /\ UNCHANGED <<pc, loc, tmp, formed>>

NextAuth == \E req \in AuthRequests : ApiAuthWrite(req)

SpecAuth == InitAuth /\ [][NextAuth]_vars

\* ------------------------------------------------------------------------
\* Reading tables and call records in the properties
\* ------------------------------------------------------------------------

HeaderOf(f) == IF f = <<>> THEN <<>> ELSE f[1]

\* the data records of a table: everything after the header but blank lines
DataOf(f) == SelectNonBlank(IF f = <<>> THEN <<>> ELSE Tail(f))

NumRows(f) == Len(DataOf(f))

\* the position of column col in the header (0: no such column)
ColPos(f, col) ==
    IF \E i \in 1..Len(HeaderOf(f)) : HeaderOf(f)[i] = col
    THEN CHOOSE i \in 1..Len(HeaderOf(f)) : HeaderOf(f)[i] = col
    ELSE 0

\* the cell of data row j under column col; empty when the column or the
\* cell is absent
CellAt(f, j, col) ==
    IF ColPos(f, col) = 0 \/ ColPos(f, col) > Len(DataOf(f)[j]) THEN <<>>
    ELSE DataOf(f)[j][ColPos(f, col)]

\* row j agrees with every (column, value) pair of the match key, trimmed
KeyMatches(f, j, a) ==
    \A i \in 1..Len(a.searchkey) :
        Strip(CellAt(f, j, a.searchkey[i])) = Strip(a.searchvalues[i])

MatchingRows(f, a) == {j \in 1..NumRows(f) : KeyMatches(f, j, a)}

\* the k-th smallest element of a set of row numbers
Kth(M, k) == CHOOSE j \in M : Cardinality({m \in M : m < j}) = k - 1

\* the elements of s in order, each kept at its first occurrence only
RECURSIVE FirstOccurrencesFrom(_, _)
FirstOccurrencesFrom(s, i) ==
    IF i > Len(s) THEN <<>>
    ELSE (IF \E j \in 1..(i - 1) : s[j] = s[i] THEN <<>> ELSE <<s[i]>>)
         \o FirstOccurrencesFrom(s, i + 1)

FirstOccurrences(s) == FirstOccurrencesFrom(s, 1)

\* the text is a JSON array of n elements
IsJsonArrayOfLength(cell, n) ==
    LET r == JsonLoads(cell) IN r.ok /\ r.val.t = "list" /\ Len(r.val.v) = n

EDCalls == {i \in 1..Len(hist) : hist[i].op = "ExtendData"}

\* every stored target cell the calls read decodes to values the model holds
AllCellsModelled ==
    \A i \in EDCalls : \A j \in 1..NumRows(hist[i].before) :
        ParseExistingCell(CellAt(hist[i].before, j, hist[i].args.tablekey))
            # UnmodelledList

\* ------------------------------------------------------------------------
\* C1  ExtendData is idempotent: a call (json_store = TRUE, the default)
\*     repeated with the same arguments leaves every target cell, and the
\*     whole file, as the first of the two calls left it.
\* ------------------------------------------------------------------------
C1_Idempotent ==
    \A i \in EDCalls :
        (/\ i + 1 \in EDCalls
         /\ hist[i].args.json_store
         /\ hist[i + 1].args = hist[i].args)
            => hist[i + 1].after = hist[i].after

\* ------------------------------------------------------------------------
\* C2  After a call with json_store = TRUE the target cell of every matched
\*     row is encoded by the size of the merged set ("" for none, the bare
\*     element for one, a JSON array for two or more), and so is never the
\*     text of a JSON array of length 1.
\* ------------------------------------------------------------------------
C2_SizeEncoding(h, j) ==
    LET merged == MergeItems(ParseExistingCell(CellAt(h.before, j, h.args.tablekey)),
                             h.args.extenddata)
        cell == CellAt(h.after, j, h.args.tablekey)
    IN  /\ Len(merged) = 0 => cell = <<>>
        /\ Len(merged) = 1 => cell = merged[1]
        /\ Len(merged) >= 2 => cell = JsonDumps(merged)

C2_EncodedBySize ==
    \A i \in EDCalls :
        hist[i].args.json_store =>
            \A j \in MatchingRows(hist[i].before, hist[i].args) :
                /\ C2_SizeEncoding(hist[i], j)
                /\ ~IsJsonArrayOfLength(
                        CellAt(hist[i].after, j, hist[i].args.tablekey), 1)

\* ------------------------------------------------------------------------
\* C3  For each matched row the merged set is the existing elements of the
\*     target cell in stored order, then the new values not yet present in
\*     the order given, duplicates removed by string equality; from an empty
\*     cell, merging [x] gives x, then [y] gives ["x", "y"], then [x] again
\*     changes nothing.
\* ------------------------------------------------------------------------
C3_Scenario(i, j) ==
    /\ {i, i + 1, i + 2} \subseteq EDCalls
    /\ \A k \in {i, i + 1, i + 2} :
          /\ hist[k].args.json_store
          /\ hist[k].args.tablekey = hist[i].args.tablekey
          /\ j \in MatchingRows(hist[k].before, hist[k].args)
    /\ hist[i].args.extenddata = <<ValX>>
    /\ hist[i + 1].args.extenddata = <<ValY>>
    /\ hist[i + 2].args.extenddata = <<ValX>>
    /\ CellAt(hist[i].before, j, hist[i].args.tablekey) = <<>>

C3_ScenarioResult(i, j) ==
    /\ CellAt(hist[i].after, j, hist[i].args.tablekey) = ValX
    /\ CellAt(hist[i + 1].after, j, hist[i].args.tablekey) = ValArrXY
    /\ CellAt(hist[i + 2].after, j, hist[i].args.tablekey) = ValArrXY

C3_MergedSet ==
    /\ \A i \in EDCalls : \A j \in MatchingRows(hist[i].before, hist[i].args) :
          CellAt(hist[i].after, j, hist[i].args.tablekey)
            = StoredValue(
                FirstOccurrences(
                    ParseExistingCell(CellAt(hist[i].before, j, hist[i].args.tablekey))
                        \o hist[i].args.extenddata),
                hist[i].args.json_store)
    /\ \A i \in EDCalls : \A j \in 1..NumRows(hist[i].before) :
          C3_Scenario(i, j) => C3_ScenarioResult(i, j)

C3_Witness ==
    \E i \in EDCalls : \E j \in 1..NumRows(hist[i].before) :
        C3_Scenario(i, j) /\ C3_ScenarioResult(i, j)

\* ------------------------------------------------------------------------
\* C6  A row is updated if and only if, for every (column, value) pair of
\*     the match key, its trimmed cell under the column equals the trimmed
\*     value (a column missing from the header reads as the empty cell; an
\*     empty key list matches every row): the returned rows are the matching
\*     rows in file order, and no other row's target cell changes.
\* ------------------------------------------------------------------------
C6_RowsUpdated(h) ==
    LET M == MatchingRows(h.before, h.args) IN
    /\ Len(h.ret) = Cardinality(M)
    /\ M = {} => h.after = h.before
    /\ M # {} =>
        /\ NumRows(h.after) = NumRows(h.before)
        /\ \A k \in 1..Len(h.ret) :
              [c \in 1..Len(h.ret[k]) |-> NoneToEmpty(h.ret[k][c])]
                = DataOf(h.after)[Kth(M, k)]
        /\ \A j \in 1..NumRows(h.before) :
              j \notin M =>
                CellAt(h.after, j, h.args.tablekey)
                    = CellAt(h.before, j, h.args.tablekey)

C6_MatchRule == \A i \in EDCalls : C6_RowsUpdated(hist[i])

\* one run with a key that matches only after trimming and leaves another
\* row out, a key on a column the header lacks, and an empty key list
C6_Witness ==
    /\ \E i \in EDCalls :
          LET M == MatchingRows(hist[i].before, hist[i].args) IN
          /\ M # {} /\ M # 1..NumRows(hist[i].before)
          /\ \E j \in M :
                CellAt(hist[i].before, j, ColId) # hist[i].args.searchvalues[1]
          /\ C6_RowsUpdated(hist[i])
    /\ \E i \in EDCalls :
          /\ hist[i].args.searchkey = <<ColZz>>
          /\ Len(hist[i].ret) = NumRows(hist[i].before)
    /\ \E i \in EDCalls :
          /\ hist[i].args.searchkey = <<>>
          /\ Len(hist[i].ret) = NumRows(hist[i].before)

\* ------------------------------------------------------------------------
\* C7  When a call rewrites the file and the target column is not in the
\*     header, the column is appended as the last header column and the
\*     existing columns keep their order; a header that has it is kept.
\* ------------------------------------------------------------------------
C7_ColumnAppended ==
    \A i \in EDCalls :
        hist[i].ret # <<>> =>
            HeaderOf(hist[i].after)
                = IF ColPos(hist[i].before, hist[i].args.tablekey) = 0
                  THEN HeaderOf(hist[i].before) \o <<hist[i].args.tablekey>>
                  ELSE HeaderOf(hist[i].before)

C7_Witness ==
    \E i \in EDCalls :
        /\ hist[i].ret # <<>>
        /\ ColPos(hist[i].before, hist[i].args.tablekey) = 0
        /\ Len(HeaderOf(hist[i].before)) >= 1
        /\ HeaderOf(hist[i].after)
             = HeaderOf(hist[i].before) \o <<hist[i].args.tablekey>>

\* ------------------------------------------------------------------------
\* C4  If no row matches the key the call is a no-op: it returns the empty
\*     list, the file stays exactly as it was (the target column is not
\*     added) and no temporary file exists at any moment of the call.
\* ------------------------------------------------------------------------
C4_NoMatchNoOp ==
    \A p \in Procs :
        (pc[p] # "idle" /\ MatchingRows(loc[p].before, loc[p].a) = {})
            => /\ pc[p] = "done"
               /\ ~loc[p].failed
               /\ Returned(p) = <<>>
               /\ file = loc[p].before
               /\ ~tmp[p].exists

\* a finished call that matched no row of a table lacking the target column
C4_Witness ==
    /\ pc[1] = "done"
    /\ NumRows(loc[1].before) >= 1
    /\ MatchingRows(loc[1].before, loc[1].a) = {}
    /\ ColPos(loc[1].before, loc[1].a.tablekey) = 0
    /\ ColPos(file, loc[1].a.tablekey) = 0
    /\ file = loc[1].before

Replaced(p) ==
    /\ pc[p] \in {"finally", "done"}
    /\ ~loc[p].failed
    /\ loc[p].updated_rows # <<>>

C8_CompleteTable ==
    \/ \A p \in Procs : pc[p] = "idle"
    \/ \E p \in Procs :
          /\ pc[p] # "idle"
          /\ \/ file = loc[p].before
             \/ Replaced(p) /\ file = loc[p].out

C8_ReplaceInstallsFullOutput ==
    file' # file =>
        \E p \in Procs :
            /\ pc[p] = "move"
            /\ pc'[p] = "finally"
            /\ file' = loc[p].out

C8_LastReplaceWins ==
    /\ []C8_CompleteTable
    /\ [][C8_ReplaceInstallsFullOutput]_vars

\* both calls have ended without an error, each replaced the file, and the
\* change caller 1 made to a row is not in the file, which is caller 2's output
C8_Witness ==
    /\ \A p \in Procs : pc[p] = "done" /\ Replaced(p)
    /\ loc[1].before = loc[2].before
    /\ file = loc[2].out
    /\ \E j \in 1..NumRows(loc[1].before) :
          /\ CellAt(loc[1].out, j, ColTags) # CellAt(loc[1].before, j, ColTags)
          /\ CellAt(file, j, ColTags) = CellAt(loc[1].before, j, ColTags)

\* ------------------------------------------------------------------------
\* C9  When the existing table has at least one column, each row appended
\*     by writeDataBase holds, under every existing column that is in head,
\*     the incoming row's value for that column, and "" under every existing
\*     column that is not; values of head columns the table lacks are
\*     dropped (head [id, extra], row [1, z] on header [id, name] appends
\*     [1, ""]).
\* ------------------------------------------------------------------------
WDCalls ==
    {i \in 1..Len(hist) :
        /\ hist[i].op = "writeDataBase"
        /\ hist[i].raised = "none"
        /\ Len(HeaderOf(hist[i].before)) >= 1}

HeadPos(head, col) ==
    IF \E i \in 1..Len(head) : head[i] = col
    THEN CHOOSE i \in 1..Len(head) : head[i] = col
    ELSE 0

\* the record appended for the k-th incoming row: the new rows are the last
\* records of the file written
AppendedRecord(h, k) == DataOf(h.after)[NumRows(h.after) - Len(h.args.data) + k]

C9_RowAligned(h, k) ==
    /\ NumRows(h.after) >= Len(h.args.data)
    /\ Len(AppendedRecord(h, k)) = Len(HeaderOf(h.before))
    /\ \A c \in 1..Len(HeaderOf(h.before)) :
          AppendedRecord(h, k)[c]
            = IF HeadPos(h.args.head, HeaderOf(h.before)[c]) = 0 THEN <<>>
              ELSE h.args.data[k][HeadPos(h.args.head, HeaderOf(h.before)[c])]

C9_ScenarioCall(h) ==
    /\ HeaderOf(h.before) = <<ColId, ColName>>
    /\ h.args = WDArg(<<ColId, ColExtra>>, << <<Val1, ValZ>> >>)

C9_AppendedRows ==
    \A i \in WDCalls :
        /\ \A k \in 1..Len(hist[i].args.data) : C9_RowAligned(hist[i], k)
        /\ C9_ScenarioCall(hist[i]) => AppendedRecord(hist[i], 1) = <<Val1, Empty>>

C9_Witness ==
    \E i \in WDCalls :
        /\ C9_ScenarioCall(hist[i])
        /\ AppendedRecord(hist[i], 1) = <<Val1, Empty>>
        /\ HeaderOf(hist[i].after) = <<ColId, ColName>>

\* ------------------------------------------------------------------------
\* C10 writeDataBase never widens an existing schema: when the table has at
\*     least one column the header after the write is the header before it,
\*     the rows stored before are kept unchanged and in order, and the new
\*     rows follow them in the order given.
\* ------------------------------------------------------------------------
C10_NeverWidens ==
    \A i \in WDCalls :
        /\ HeaderOf(hist[i].after) = HeaderOf(hist[i].before)
        /\ NumRows(hist[i].after)
             = NumRows(hist[i].before) + Len(hist[i].args.data)
        /\ \A j \in 1..NumRows(hist[i].before) :
              \A c \in 1..Len(HeaderOf(hist[i].before)) :
                  CellAt(hist[i].after, j, HeaderOf(hist[i].before)[c])
                    = CellAt(hist[i].before, j, HeaderOf(hist[i].before)[c])
        /\ \A k \in 1..Len(hist[i].args.data) : C9_RowAligned(hist[i], k)

\* ------------------------------------------------------------------------
\* C11 For every valid CSV table, writeDataBase with zero rows (any head)
\*     leaves the content of the table as a read before the call returned
\*     it: readDataBase gives the same header and rows after the call as
\*     before it.
\* ------------------------------------------------------------------------
C11_ZeroRowsNoOp ==
    \A i \in WDCalls :
        hist[i].args.data = <<>>
            => ReadDataBase(RDDefault(PathCsv), hist[i].after)
                 = ReadDataBase(RDDefault(PathCsv), hist[i].before)

\* ------------------------------------------------------------------------
\* C12 writeDataBase rejects the whole batch when a row has not len(head)
\*     cells, when the target file is missing and when its extension is not
\*     supported; the error comes before any write: the file is unchanged
\*     and no file is created.
\* ------------------------------------------------------------------------
EndsWith(s, lit) == Len(lit) <= Len(s) /\ SubSeq(s, Len(s) - Len(lit) + 1, Len(s)) = lit

C12_BadRow(a) == \E k \in 1..Len(a.data) : Len(a.data[k]) # Len(a.head)

C12_Missing(a) == a.filepath \notin DiskPaths

C12_Unsupported(a) == \A e \in WriteSuffixes : ~EndsWith(Lower(a.filepath), e)

C12_NothingWritten(h) ==
    /\ h.after = h.before
    /\ ~formed.exists
    /\ \A p \in Procs : ~tmp[p].exists

C12_Rejects ==
    \A i \in 1..Len(hist) :
        hist[i].op = "writeDataBase" =>
            LET a == hist[i].args
            IN  /\ (C12_BadRow(a) \/ C12_Missing(a) \/ C12_Unsupported(a))
                      => hist[i].raised # "none" /\ C12_NothingWritten(hist[i])
                /\ C12_Missing(a) => hist[i].raised = "FileNotFoundError"
                /\ (C12_BadRow(a) /\ ~C12_Missing(a))
                      => hist[i].raised = "ValueError: row length"
                /\ (i > 1 /\ hist[i].raised # "none") => hist[i].before = hist[i - 1].after

\* a batch whose first row is well-formed is rejected for its second, a call
\* on a missing file and a call on a file of another kind are rejected too
C12_Witness ==
    /\ \E i \in 1..Len(hist) :
          /\ hist[i].op = "writeDataBase"
          /\ hist[i].args.filepath = PathCsv
          /\ Len(hist[i].args.data) = 2
          /\ Len(hist[i].args.data[1]) = Len(hist[i].args.head)
          /\ hist[i].raised = "ValueError: row length"
          /\ hist[i].after = hist[i].before
    /\ \E i \in 1..Len(hist) :
          hist[i].op = "writeDataBase" /\ hist[i].raised = "FileNotFoundError"
    /\ \E i \in 1..Len(hist) :
          /\ hist[i].op = "writeDataBase"
          /\ hist[i].args.filepath \in DiskPaths
          /\ hist[i].raised = "ValueError: unsupported format"
          /\ file = hist[i].before

\* ------------------------------------------------------------------------
\* Reading the results of readDataBase
\* ------------------------------------------------------------------------
RDCalls == {i \in 1..Len(hist) : hist[i].op = "readDataBase"}

\* the call is on a table file that is there and has a header, and no
\* exception came up while it was read
RDReadable(h) ==
    /\ h.exc = <<>>
    /\ h.args.filepath \in DiskPaths
    /\ \E e \in XlsxExts \cup CsvExts : EndsWith(Lower(h.args.filepath), e)
    /\ h.args.header_override # <<>> \/ \E i \in 1..Len(h.before) : HasContent(h.before[i])

RDIsXlsx(h) == \E e \in XlsxExts : EndsWith(Lower(h.args.filepath), e)

\* the rows of the file as they are read, cell by cell
RDGrid(h) ==
    IF RDIsXlsx(h)
    THEN [i \in 1..Len(h.before) |-> ToStrRow(XlsxIterRows(h.before)[i])]
    ELSE CsvReaderRows(h.before)

\* the header row of the file and the data rows after it
RDHeader(h) ==
    IF h.args.header_override # <<>> THEN h.args.header_override
    ELSE RDGrid(h)[HeaderPos(RDGrid(h))]

RDDataRows(h) ==
    IF h.args.header_override # <<>> THEN RDGrid(h)
    ELSE RowsAfter(RDGrid(h), HeaderPos(RDGrid(h)))

\* the 0-based positions start .. start+amount-1 that fall inside the table
RDStart(h) == IF h.args.start = <<>> THEN 0 ELSE h.args.start[1]

RDWindowSize(h) ==
    LET left == IF Len(RDDataRows(h)) > RDStart(h)
                THEN Len(RDDataRows(h)) - RDStart(h) ELSE 0
    IN  IF h.args.amount # <<>> /\ h.args.amount[1] < left
        THEN h.args.amount[1] ELSE left

RDWindowed(h) == [k \in 1..RDWindowSize(h) |-> RDDataRows(h)[RDStart(h) + k]]

\* the result has a log row, which is its last one
RDHasLog(ret) == ret # <<>> /\ ret[Len(ret)] # <<>> /\ ret[Len(ret)][1] = LogMark

\* the result without its log row
RDBody(ret) == IF RDHasLog(ret) THEN SubSeq(ret, 1, Len(ret) - 1) ELSE ret

\* ------------------------------------------------------------------------
\* C13 readDataBase applies start and amount to the data rows, the header
\*     not counted: the rows it works on are the data rows at the 0-based
\*     positions start .. start+amount-1, in file order, at most amount of
\*     them, and with start at or beyond the number of data rows the result
\*     is the header alone, without log entry.
\* ------------------------------------------------------------------------
C13_FullTable(h) == h.args.columnKey = NoneCell /\ h.args.secondColumnKey = NoneCell

C13_OneColumn(h) ==
    /\ h.args.columnKey # NoneCell
    /\ h.args.fieldValue = NoneCell
    /\ h.args.secondColumnKey = NoneCell
    /\ InSeq(h.args.columnKey, RDHeader(h))

C13_Windowed(h) ==
    /\ ~RDHasLog(h.ret)
    /\ Len(h.ret) = 1 + RDWindowSize(h)
    /\ h.ret[1] # <<>> /\ h.ret[1][1] # LogMark
    /\ RDWindowSize(h) <= Len(RDDataRows(h))
    /\ h.args.amount # <<>> => RDWindowSize(h) <= h.args.amount[1]
    /\ RDStart(h) >= Len(RDDataRows(h)) => Len(h.ret) = 1
    /\ C13_FullTable(h) =>
          \A k \in 1..RDWindowSize(h) :
              h.ret[1 + k] = PadTo(RDWindowed(h)[k], Len(h.ret[1]))
    /\ C13_OneColumn(h) =>
          \A k \in 1..RDWindowSize(h) :
              h.ret[1 + k]
                = <<PadTo(RDWindowed(h)[k], Len(RDHeader(h)) + 1)
                        [FirstIndex(RDHeader(h), h.args.columnKey)]>>

C13_WindowOnDataRows ==
    \A i \in RDCalls :
        (RDReadable(hist[i]) /\ (C13_FullTable(hist[i]) \/ C13_OneColumn(hist[i])))
            => C13_Windowed(hist[i])

\* start 1, amount 1 on a table of three data rows or more: the second data
\* row alone is returned
C13_Witness ==
    \E i \in RDCalls :
        /\ RDReadable(hist[i]) /\ C13_FullTable(hist[i])
        /\ hist[i].args.start = <<1>> /\ hist[i].args.amount = <<1>>
        /\ Len(RDDataRows(hist[i])) >= 3
        /\ Len(hist[i].ret) = 2
        /\ hist[i].ret[2] = PadTo(RDDataRows(hist[i])[2], Len(hist[i].ret[1]))

\* ------------------------------------------------------------------------
\* C14 In every full-table result and every filtered full-row result each
\*     returned row has as many cells as the returned header: header and
\*     rows are right-padded with "" to the greatest width among the header
\*     and the collected rows, and no cell is dropped or reordered.
\* ------------------------------------------------------------------------
C14_FullRows(h) ==
    \/ h.args.columnKey = NoneCell
    \/ /\ h.args.columnKey # NoneCell
       /\ h.args.fieldValue # NoneCell
       /\ h.args.secondColumnKey = NoneCell

\* the greatest width among the header and the collected rows
C14_Width(h) ==
    CHOOSE w \in 0..(Len(RDHeader(h)) + SheetWidth(h.before)) :
        /\ \A r \in {RDHeader(h)} \cup Range(RDWindowed(h)) : Len(r) <= w
        /\ \E r \in {RDHeader(h)} \cup Range(RDWindowed(h)) : Len(r) = w

\* r is s followed by empty cells only
C14_PaddingOf(r, s) ==
    /\ Len(r) >= Len(s)
    /\ SubSeq(r, 1, Len(s)) = s
    /\ \A c \in (Len(s) + 1)..Len(r) : r[c] = <<>>

C14_Normalized(h) ==
    LET body == RDBody(h.ret)
    IN  /\ body # <<>>
        /\ Len(body[1]) = C14_Width(h)
        /\ C14_PaddingOf(body[1], RDHeader(h))
        /\ \A k \in 2..Len(body) :
              /\ Len(body[k]) = Len(body[1])
              /\ \E j \in 1..RDWindowSize(h) : C14_PaddingOf(body[k], RDWindowed(h)[j])
        /\ h.args.columnKey = NoneCell =>
              /\ Len(body) = 1 + RDWindowSize(h)
              /\ \A k \in 1..RDWindowSize(h) :
                    C14_PaddingOf(body[1 + k], RDWindowed(h)[k])

C14_RowsAsWideAsHeader ==
    \A i \in RDCalls :
        (RDReadable(hist[i]) /\ C14_FullRows(hist[i])) => C14_Normalized(hist[i])

\* a table with a short row and a row longer than the header, read whole
C14_Witness ==
    \E i \in RDCalls :
        /\ RDReadable(hist[i]) /\ hist[i].args.columnKey = NoneCell
        /\ \E j \in 1..RDWindowSize(hist[i]) :
              Len(RDWindowed(hist[i])[j]) < Len(RDHeader(hist[i]))
        /\ \E j \in 1..RDWindowSize(hist[i]) :
              Len(RDWindowed(hist[i])[j]) > Len(RDHeader(hist[i]))
        /\ Len(hist[i].ret[1]) > Len(RDHeader(hist[i]))
        /\ \A k \in 1..Len(hist[i].ret) : Len(hist[i].ret[k]) = Len(hist[i].ret[1])

\* ------------------------------------------------------------------------
\* C15 With columnKey and fieldValue and no secondColumnKey, readDataBase
\*     returns the full header followed by exactly the rows whose cell under
\*     columnKey equals fieldValue, compared as they are and not trimmed,
\*     in file order (header [id, name], rows [1, a], [2, b], columnKey
\*     name, fieldValue a: header [id, name] and the row [1, a]).
\* ------------------------------------------------------------------------
C15_FilterMode(h) ==
    /\ h.args.columnKey # NoneCell
    /\ h.args.fieldValue # NoneCell
    /\ h.args.secondColumnKey = NoneCell

\* the same call without keys: the header and the rows of the window
C15_Unfiltered(h) ==
    RDBody(ReadDataBase([h.args EXCEPT !.columnKey = NoneCell,
                                       !.fieldValue = NoneCell,
                                       !.secondColumnKey = NoneCell], h.before))

RECURSIVE C15_Keep(_, _, _)
C15_Keep(rows, idx, value) ==
    IF rows = <<>> THEN <<>>
    ELSE IF Head(rows)[idx] = value
         THEN <<Head(rows)>> \o C15_Keep(Tail(rows), idx, value)
         ELSE C15_Keep(Tail(rows), idx, value)

\* the rows of the window whose cell under columnKey is fieldValue
C15_Matching(h) ==
    C15_Keep(Tail(C15_Unfiltered(h)),
             FirstIndex(C15_Unfiltered(h)[1], h.args.columnKey), h.args.fieldValue)

C15_Scenario(h) ==
    /\ h.before = << <<ColId, ColName>>, <<Val1, ValA>>, <<Val2, ValB>> >>
    /\ h.args = RDArg(PathCsv, <<0>>, <<10000>>, ColName, ValA, NoneCell)

C15_ExactFilter ==
    \A i \in RDCalls :
        (/\ RDReadable(hist[i])
         /\ C15_FilterMode(hist[i])
         /\ InSeq(hist[i].args.columnKey, C15_Unfiltered(hist[i])[1]))
            => /\ hist[i].ret = <<C15_Unfiltered(hist[i])[1]>> \o C15_Matching(hist[i])
               /\ C15_Scenario(hist[i])
                     => hist[i].ret = << <<ColId, ColName>>, <<Val1, ValA>> >>

C15_Witness ==
    \E i \in RDCalls :
        /\ C15_Scenario(hist[i])
        /\ hist[i].ret = << <<ColId, ColName>>, <<Val1, ValA>> >>

\* ------------------------------------------------------------------------
\* C16 In the projection modes the result header is a single column and
\*     every result row has one cell: with columnKey only, the header is
\*     [columnKey] and there is one row per row of the window, holding that
\*     row's cell under columnKey; with columnKey, fieldValue and
\*     secondColumnKey, the header is [secondColumnKey] and there is one row
\*     per matching row, holding that row's cell under secondColumnKey, in
\*     file order.
\* ------------------------------------------------------------------------
C16_KeyOnly(h) ==
    /\ h.args.columnKey # NoneCell
    /\ h.args.fieldValue = NoneCell
    /\ InSeq(h.args.columnKey, C15_Unfiltered(h)[1])

C16_SecondKey(h) ==
    /\ h.args.columnKey # NoneCell
    /\ h.args.fieldValue # NoneCell
    /\ h.args.secondColumnKey # NoneCell
    /\ InSeq(h.args.columnKey, C15_Unfiltered(h)[1])
    /\ InSeq(h.args.secondColumnKey, C15_Unfiltered(h)[1])

\* the result is the header [key] and one cell, the one under key, of each
\* of rows
C16_Projects(ret, key, header, rows) ==
    /\ Len(ret) = 1 + Len(rows)
    /\ ret[1] = <<key>>
    /\ \A k \in 1..Len(rows) : ret[1 + k] = <<rows[k][FirstIndex(header, key)]>>

C16_SingleColumn ==
    \A i \in RDCalls :
        RDReadable(hist[i]) =>
            /\ C16_KeyOnly(hist[i]) =>
                  C16_Projects(RDBody(hist[i].ret), hist[i].args.columnKey,
                               C15_Unfiltered(hist[i])[1], Tail(C15_Unfiltered(hist[i])))
            /\ C16_SecondKey(hist[i]) =>
                  C16_Projects(RDBody(hist[i].ret), hist[i].args.secondColumnKey,
                               C15_Unfiltered(hist[i])[1], C15_Matching(hist[i]))

\* columnKey name, fieldValue a, secondColumnKey id on a table where a row
\* matches and a row does not
C16_Witness ==
    \E i \in RDCalls :
        /\ RDReadable(hist[i]) /\ C16_SecondKey(hist[i])
        /\ hist[i].args.secondColumnKey = ColId
        /\ Len(C15_Matching(hist[i])) >= 1
        /\ Len(C15_Matching(hist[i])) < Len(Tail(C15_Unfiltered(hist[i])))
        /\ hist[i].ret[1] = <<ColId>>
        /\ hist[i].ret[2] = <<Val1>>

\* ------------------------------------------------------------------------
\* C17 When columnKey or secondColumnKey is not in the header the call does
\*     not abort: the result begins with a header row, the mode that
\*     depends on the missing key yields no data row, and a log entry that
\*     names the missing key is attached.
\* ------------------------------------------------------------------------
Contains(s, sub) == \E i \in 1..(Len(s) + 1) : StartsWith(s, i, sub)

C17_ColumnKeyMissing(h) ==
    h.args.columnKey # NoneCell /\ ~InSeq(h.args.columnKey, C15_Unfiltered(h)[1])

C17_SecondKeyMissing(h) ==
    /\ h.args.secondColumnKey # NoneCell
    /\ ~InSeq(h.args.secondColumnKey, C15_Unfiltered(h)[1])

\* the mode of the call reads the cells under the missing key
C17_ModeNeedsKey(h) ==
    \/ C17_ColumnKeyMissing(h)
    \/ /\ C17_SecondKeyMissing(h)
       /\ h.args.columnKey # NoneCell /\ h.args.fieldValue # NoneCell

C17_Degrades(h) ==
    /\ RDHasLog(h.ret)
    /\ Len(h.ret[Len(h.ret)]) = 2
    /\ C17_ColumnKeyMissing(h) => Contains(h.ret[Len(h.ret)][2], h.args.columnKey)
    /\ C17_SecondKeyMissing(h) => Contains(h.ret[Len(h.ret)][2], h.args.secondColumnKey)
    /\ Len(RDBody(h.ret)) >= 1
    /\ h.ret[1] # <<>> /\ h.ret[1][1] # LogMark
    /\ h.ret[1] \in {C15_Unfiltered(h)[1], <<h.args.columnKey>>, <<h.args.secondColumnKey>>}
    /\ C17_ModeNeedsKey(h) => Len(RDBody(h.ret)) = 1

C17_MissingKeyDegrades ==
    \A i \in RDCalls :
        (/\ RDReadable(hist[i])
         /\ C17_ColumnKeyMissing(hist[i]) \/ C17_SecondKeyMissing(hist[i]))
            => C17_Degrades(hist[i])

\* a projection on a column the table with data rows does not have
C17_Witness ==
    \E i \in RDCalls :
        /\ RDReadable(hist[i])
        /\ hist[i].args.columnKey = ColZz
        /\ Len(C15_Unfiltered(hist[i])) >= 2
        /\ Len(hist[i].ret) = 2
        /\ hist[i].ret[1] = <<ColZz>>
        /\ hist[i].ret[2] = <<LogMark, MsgColumnKey(ColZz)>>

\* ------------------------------------------------------------------------
\* C18 Given a filepath that is empty or not a string, a path that is not
\*     on disk, or a file with an unsupported extension, readDataBase does
\*     not raise and does not return an empty result: it returns a log-only
\*     result with a diagnostic for that condition, and no header or data
\*     row.
\* ------------------------------------------------------------------------
C18_InvalidPath(h) == h.args.filepath = NoneCell \/ h.args.filepath = <<>>

C18_NotOnDisk(h) == ~C18_InvalidPath(h) /\ h.args.filepath \notin DiskPaths

C18_Unsupported(h) ==
    /\ h.args.filepath \in DiskPaths
    /\ \A e \in XlsxExts \cup CsvExts : ~EndsWith(Lower(h.args.filepath), e)

C18_LogOnlyWith(ret, text) ==
    /\ ret # <<>>
    /\ \A k \in 1..Len(ret) :
          /\ Len(ret[k]) = 2
          /\ ret[k][1] = LogMark
          /\ ret[k][2] # <<>>
          /\ Contains(ret[k][2], text)

C18_BadPathLogOnly ==
    \A i \in RDCalls :
        /\ C18_InvalidPath(hist[i]) => C18_LogOnlyWith(hist[i].ret, MsgInvalidPath)
        /\ C18_NotOnDisk(hist[i])
              => C18_LogOnlyWith(hist[i].ret, MsgNotFound(hist[i].args.filepath))
        /\ C18_Unsupported(hist[i])
              => C18_LogOnlyWith(hist[i].ret,
                                 MsgUnsupported(SplitExt(Lower(hist[i].args.filepath))))

\* a path that is not on disk
C18_Witness ==
    \E i \in RDCalls :
        /\ C18_NotOnDisk(hist[i])
        /\ hist[i].ret = << <<LogMark, MsgNotFound(PathMissing)>> >>

\* ------------------------------------------------------------------------
\* C19 For every canonical column of the synonym map, the output column of
\*     formDataBase holds the cells of the first original column, in file
\*     column order, whose lowercased name is one of the aliases of that
\*     canonical column, and is present but entirely empty when no original
\*     column matches; with no alias match at all the call does not raise
\*     and writes the canonical headers with all-empty columns.
\* ------------------------------------------------------------------------
FDCalls ==
    {i \in 1..Len(hist) :
        /\ hist[i].op = "formDataBase"
        /\ hist[i].args.filepath \in DiskPaths
        /\ EndsWith(Lower(hist[i].args.filepath), DotCsv)}

\* the original columns whose lowercased name is an alias of key j
C19_Candidates(h, j) ==
    {c \in 1..Len(HeaderOf(h.before)) :
        \E s \in 1..Len(h.args.headkeys[j][2]) :
            Lower(HeaderOf(h.before)[c]) = Lower(h.args.headkeys[j][2][s])}

C19_First(h, j) == CHOOSE c \in C19_Candidates(h, j) : \A d \in C19_Candidates(h, j) : c <= d

C19_ColumnHeld(h, j) ==
    /\ \A i \in 1..NumRows(h.out) : Len(DataOf(h.out)[i]) >= j
    /\ IF C19_Candidates(h, j) = {}
       THEN \A i \in 1..NumRows(h.out) : DataOf(h.out)[i][j] = <<>>
       ELSE /\ NumRows(h.out) = NumRows(h.before)
            /\ \A i \in 1..NumRows(h.before) :
                  DataOf(h.out)[i][j]
                    = CellAt(h.before, i, HeaderOf(h.before)[C19_First(h, j)])

C19_ColumnsFromAliases ==
    \A i \in FDCalls :
        /\ hist[i].raised = "none"
        /\ Len(HeaderOf(hist[i].out)) = Len(hist[i].args.headkeys)
        /\ \A j \in 1..Len(hist[i].args.headkeys) : C19_ColumnHeld(hist[i], j)

\* ------------------------------------------------------------------------
\* C20 The header of the output of formDataBase is the canonical keys of
\*     the synonym map in the iteration order of the map, whatever the
\*     column order of the input file; an input column the map does not
\*     cover is absent from the output.
\* ------------------------------------------------------------------------
C20_Covered(h, name) ==
    \E j \in 1..Len(h.args.headkeys) :
        \/ h.args.headkeys[j][1] = name
        \/ \E s \in 1..Len(h.args.headkeys[j][2]) :
              Lower(h.args.headkeys[j][2][s]) = Lower(name)

C20_CanonicalHeader ==
    \A i \in FDCalls :
        hist[i].raised = "none" =>
            /\ hist[i].out # <<>>
            /\ Len(hist[i].out[1]) = Len(hist[i].args.headkeys)
            /\ \A j \in 1..Len(hist[i].args.headkeys) :
                  hist[i].out[1][j] = hist[i].args.headkeys[j][1]
            /\ \A r \in 1..Len(hist[i].out) :
                  Len(hist[i].out[r]) = Len(hist[i].args.headkeys)
            /\ \A c \in 1..Len(HeaderOf(hist[i].before)) :
                  ~C20_Covered(hist[i], HeaderOf(hist[i].before)[c])
                      => ~InSeq(HeaderOf(hist[i].before)[c], hist[i].out[1])
            /\ (IF NewFilepath(hist[i].args.newfilename) = hist[i].args.filepath
                THEN hist[i].after ELSE formed.content) # <<>>

\* a table with the columns id, Name, extra in that order, formed with the
\* keys name, id: the output header is name, id and extra is gone
C20_Witness ==
    \E i \in FDCalls :
        /\ hist[i].raised = "none"
        /\ HeaderOf(hist[i].before) = <<ColId, ColUpperName, ColExtra>>
        /\ hist[i].out[1] = <<ColName, ColId>>
        /\ NumRows(hist[i].out) = 2
        /\ formed.exists /\ formed.path = NameOutCsv

\* ------------------------------------------------------------------------
\* C21 When ExtendData parses the target cell of a matching row: blank text
\*     gives no item; trimmed text that is a JSON list gives its elements as
\*     strings; any other text gives exactly one item, the trimmed cell text
\*     itself, never a transformed or split value.
\* ------------------------------------------------------------------------
C21_IsJsonList(text) ==
    LET r == JsonLoads(text) IN r.ok /\ r.val.t = "list"

C21_ParsedAsStated(cell) ==
    LET text == IF cell = NoneCell THEN <<>> ELSE Strip(cell)
        items == ParseExistingCell(cell)
    IN  /\ text = <<>> => items = <<>>
        /\ (text # <<>> /\ C21_IsJsonList(text)) =>
              items = [k \in 1..Len(JsonLoads(text).val.v) |->
                          PyStr(JsonLoads(text).val.v[k])]
        /\ (text # <<>> /\ ~C21_IsJsonList(text)) => items = <<text>>

C21_CellParsedWhole ==
    \A i \in EDCalls : \A j \in MatchingRows(hist[i].before, hist[i].args) :
        C21_ParsedAsStated(CellAt(hist[i].before, j, hist[i].args.tablekey))

\* ------------------------------------------------------------------------
\* C22 Whenever ExtendData rewrites the file, every row of the rewritten
\*     file, matched or not, has exactly one cell per header column, a value
\*     the row did not hold being written as ""; no row is shorter than the
\*     header.
\* ------------------------------------------------------------------------
C22_FullWidth(f) ==
    \A j \in 1..NumRows(f) : Len(DataOf(f)[j]) = Len(HeaderOf(f))

C22_RowsFullWidth ==
    \A i \in EDCalls : hist[i].ret # <<>> => C22_FullWidth(hist[i].after)

\* a rewrite that met a non-matching row shorter than the header and wrote
\* it out at full width, "" in the cells it did not hold
C22_Witness ==
    \E i \in EDCalls : \E j \in 1..NumRows(hist[i].before) :
        /\ hist[i].ret # <<>>
        /\ j \notin MatchingRows(hist[i].before, hist[i].args)
        /\ NumRows(hist[i].after) = NumRows(hist[i].before)
        /\ Len(DataOf(hist[i].before)[j]) < Len(HeaderOf(hist[i].before))
        /\ Len(DataOf(hist[i].after)[j]) = Len(HeaderOf(hist[i].after))
        /\ \A c \in 1..Len(HeaderOf(hist[i].after)) :
              c > Len(DataOf(hist[i].before)[j]) =>
                  DataOf(hist[i].after)[j][c] = <<>>

\* ------------------------------------------------------------------------
\* C23 If the existing table has zero columns, writeDataBase makes the
\*     incoming head the header and appends every incoming row as given:
\*     the table after the call is head followed by the incoming rows in
\*     order.
\* ------------------------------------------------------------------------
C23_ZeroColumns(f) == \A r \in 1..Len(f) : f[r] = <<>>

C23_HeadBecomesHeader ==
    \A i \in 1..Len(hist) :
        (/\ hist[i].op = "writeDataBase"
         /\ C23_ZeroColumns(hist[i].before)
         /\ ~C12_BadRow(hist[i].args)
         /\ ~C12_Missing(hist[i].args)
         /\ ~C12_Unsupported(hist[i].args))
            => /\ hist[i].raised = "none"
               /\ hist[i].after = <<hist[i].args.head>> \o hist[i].args.data

\* ------------------------------------------------------------------------
\* C24 readDataBase resolves the header in one of two ways.  With a
\*     header_override, that list is the header and every line of the file,
\*     its first line included, is a data row.  Without one, the leading rows
\*     that are entirely blank are skipped, the first row with a non-blank
\*     cell is the header, and only the rows after it are data rows.
\* ------------------------------------------------------------------------
C24_WholeWindow(h) ==
    /\ C13_FullTable(h)
    /\ h.args.start \in {<<>>, <<0>>}
    /\ h.args.amount \in {<<>>, <<10000>>}

\* the result is the header row hdr, then the rows of the file after
\* position n, each one padded only
C24_HeaderThenRowsAfter(h, hdr, n) ==
    /\ ~RDHasLog(h.ret)
    /\ Len(h.ret) = 1 + Len(RDGrid(h)) - n
    /\ C14_PaddingOf(h.ret[1], hdr)
    /\ \A k \in 1..(Len(RDGrid(h)) - n) :
          C14_PaddingOf(h.ret[1 + k], RDGrid(h)[n + k])

C24_Resolved(h) ==
    IF h.args.header_override # <<>>
    THEN C24_HeaderThenRowsAfter(h, h.args.header_override, 0)
    ELSE \E n \in 1..Len(RDGrid(h)) :
            /\ HasContent(RDGrid(h)[n])
            /\ \A j \in 1..(n - 1) : ~HasContent(RDGrid(h)[j])
            /\ C24_HeaderThenRowsAfter(h, RDGrid(h)[n], n)

C24_HeaderResolution ==
    \A i \in RDCalls :
        (RDReadable(hist[i]) /\ C24_WholeWindow(hist[i])) => C24_Resolved(hist[i])

\* header_override [name, id] on the table whose first line is id,name: the
\* result is [name, id], then [id, name] as a data row, then the other rows
C24_Witness ==
    \E i \in RDCalls :
        /\ RDReadable(hist[i]) /\ C24_WholeWindow(hist[i])
        /\ ~RDIsXlsx(hist[i])
        /\ hist[i].args.header_override = <<ColName, ColId>>
        /\ hist[i].before # <<>>
        /\ hist[i].before[1] = <<ColId, ColName>>
        /\ Len(hist[i].ret) = 1 + Len(hist[i].before)
        /\ hist[i].ret[1] = <<ColName, ColId>>
        /\ hist[i].ret[2] = <<ColId, ColName>>

\* ------------------------------------------------------------------------
\* C25 readDataBase never lets an exception out: a failure while the file
\*     is opened or parsed is caught and answered with a log-only result
\*     that carries a diagnostic message; every call returns a non-empty
\*     list.
\* ------------------------------------------------------------------------
C25_NeverRaises ==
    \A i \in RDCalls :
        /\ hist[i].ret # <<>>
        /\ hist[i].exc # <<>> =>
              /\ Len(hist[i].ret) = 1
              /\ C18_LogOnlyWith(hist[i].ret, MsgUnexpected \o hist[i].exc)

\* a read of the CSV table during which the decoding of the file failed
C25_Witness ==
    \E i \in RDCalls :
        /\ hist[i].exc = ExcDecode
        /\ hist[i].args.filepath = PathCsv
        /\ hist[i].before # <<>>
        /\ Len(hist[i].ret) = 1
        /\ hist[i].ret[1][1] = LogMark
        /\ Contains(hist[i].ret[1][2], ExcDecode)

\* ------------------------------------------------------------------------
\* C26 Every result of readDataBase holds at most one "__LOG__" row and,
\*     when it holds one, that row is its last element: a caller that takes
\*     off the last element only is left with no log row where it reads the
\*     header.
\* ------------------------------------------------------------------------
C26_IsLogRow(r) == r # <<>> /\ r[1] = LogMark

C26_OneFinalLogRow(ret) ==
    /\ Cardinality({k \in 1..Len(ret) : C26_IsLogRow(ret[k])}) <= 1
    /\ \A k \in 1..Len(ret) : C26_IsLogRow(ret[k]) => k = Len(ret)

\* result[:-1] when the last row is a log row, as the data API does
C26_Stripped(ret) ==
    IF C26_IsLogRow(ret[Len(ret)]) THEN SubSeq(ret, 1, Len(ret) - 1) ELSE ret

C26_SingleLogRowLast ==
    \A i \in RDCalls :
        /\ C26_OneFinalLogRow(hist[i].ret)
        /\ C26_Stripped(hist[i].ret) # <<>>
              => ~C26_IsLogRow(C26_Stripped(hist[i].ret)[1])

\* ------------------------------------------------------------------------
\* C27 formDataBase does not change its input: after the call the input
\*     file holds what it held before, and the result is written to a
\*     separate file whose name ends in .csv (newfilename, with .csv
\*     appended when it does not end in it).
\* ------------------------------------------------------------------------
C27_InputKept ==
    \A i \in FDCalls :
        hist[i].raised = "none" =>
            /\ hist[i].after = hist[i].before
            /\ hist[i].ret # hist[i].args.filepath
            /\ EndsWith(hist[i].ret, DotCsv)
            /\ hist[i].ret \in {hist[i].args.newfilename,
                                hist[i].args.newfilename \o DotCsv}

\* ------------------------------------------------------------------------
\* C28 A successful call of ExtendData changes the target-column cell of
\*     the matching rows and nothing else: the number and order of the rows,
\*     the order of the header columns that were there, every cell of every
\*     non-matching row and every non-target cell of every matching row are
\*     after the call what they were before it; the returned list has one
\*     entry per matching row, in file order, equal to the cells of that row
\*     after the update.
\* ------------------------------------------------------------------------
\* the cell at position c of a record, "" where the record has none
C28_CellAtPos(rec, c) == IF c <= Len(rec) THEN rec[c] ELSE <<>>

C28_RowKept(h, j, M) ==
    LET old == DataOf(h.before)[j]
        new == DataOf(h.after)[j]
    IN  \A c \in 1..(Len(old) + Len(new)) :
            (j \in M /\ c = ColPos(h.after, h.args.tablekey))
            \/ C28_CellAtPos(new, c) = C28_CellAtPos(old, c)

C28_OnlyTargetCells(h) ==
    LET M == MatchingRows(h.before, h.args) IN
    /\ NumRows(h.after) = NumRows(h.before)
    /\ SubSeq(HeaderOf(h.after), 1, Len(HeaderOf(h.before))) = HeaderOf(h.before)
    /\ \A j \in 1..NumRows(h.before) : C28_RowKept(h, j, M)
    /\ Len(h.ret) = Cardinality(M)
    /\ \A k \in 1..Len(h.ret) : h.ret[k] = DataOf(h.after)[Kth(M, k)]

C28_ChangesTargetOnly ==
    \A i \in EDCalls : hist[i].ret # <<>> => C28_OnlyTargetCells(hist[i])

\* ------------------------------------------------------------------------
\* C30 The equality filter of readDataBase works on the rows of the
\*     start/amount window: in the filter modes the rows returned are
\*     exactly the rows of the window whose cell under columnKey equals
\*     fieldValue, in order; a matching row outside the window is never
\*     returned.
\* ------------------------------------------------------------------------
C30_Filters(h) ==
    /\ h.args.columnKey # NoneCell
    /\ h.args.fieldValue # NoneCell
    /\ InSeq(h.args.columnKey, RDHeader(h))
    /\ h.args.secondColumnKey # NoneCell => InSeq(h.args.secondColumnKey, RDHeader(h))

\* the cell of row r under column key, "" where r is too short
C30_Cell(h, r, key) ==
    IF FirstIndex(RDHeader(h), key) <= Len(r)
    THEN r[FirstIndex(RDHeader(h), key)] ELSE <<>>

\* the positions, inside the window, of the rows that match
C30_Kept(h) ==
    {k \in 1..RDWindowSize(h) :
        C30_Cell(h, RDWindowed(h)[k], h.args.columnKey) = h.args.fieldValue}

C30_FilteredWindow(h) ==
    /\ Len(RDBody(h.ret)) = 1 + Cardinality(C30_Kept(h))
    /\ \A n \in 1..Cardinality(C30_Kept(h)) :
          LET r == RDWindowed(h)[Kth(C30_Kept(h), n)] IN
          IF h.args.secondColumnKey = NoneCell
          THEN C14_PaddingOf(RDBody(h.ret)[1 + n], r)
          ELSE RDBody(h.ret)[1 + n] = <<C30_Cell(h, r, h.args.secondColumnKey)>>

C30_FilterAfterWindow ==
    \A i \in RDCalls :
        (RDReadable(hist[i]) /\ C30_Filters(hist[i])) => C30_FilteredWindow(hist[i])

\* start 1, amount 1, name = a on the rows [1, " a"], [2, a], [9, a]: the
\* row [2, a] is returned, the matching row [9, a] after the window is not
C30_Witness ==
    \E i \in RDCalls :
        /\ RDReadable(hist[i]) /\ C30_Filters(hist[i])
        /\ hist[i].args.start = <<1>> /\ hist[i].args.amount = <<1>>
        /\ hist[i].args.columnKey = ColName /\ hist[i].args.fieldValue = ValA
        /\ hist[i].args.secondColumnKey = NoneCell
        /\ Len(RDDataRows(hist[i])) = 3
        /\ RDDataRows(hist[i])[3] = <<Val9, ValA>>
        /\ hist[i].ret = << <<ColId, ColName>>, <<Val2, ValA>> >>

\* ------------------------------------------------------------------------
\* C29 After every successful registration users.csv is the canonical
\*     header followed by rows with pairwise distinct usernames: exactly one
\*     row for the user just registered, equal to its canonical row, and at
\*     most one row for every other user, in the order the usernames were
\*     first seen; after any sequence of registrations and whatever
\*     duplicate rows the file held before.
\* ------------------------------------------------------------------------
AuthCalls ==
    {i \in 1..Len(hist) : hist[i].op = "api_auth_write" /\ hist[i].status = "200"}

\* the usernames as the file before the call shows them, record by record,
\* then the one of the request
C29_Seen(h) ==
    LET recs == IF h.existed THEN SelectNonBlank(h.before) ELSE <<>>
    IN  [k \in 1..Len(recs) |-> Strip(recs[k][1])] \o <<Clean(h.args.username)>>

C29_FirstSeenAt(h, name) ==
    CHOOSE k \in 1..Len(C29_Seen(h)) :
        C29_Seen(h)[k] = name /\ \A m \in 1..(k - 1) : C29_Seen(h)[m] # name

C29_OneRowPerUser(h) ==
    LET rows == Tail(h.after) IN
    /\ h.after[1] = AuthHead
    /\ \A p, q \in 1..Len(rows) : p # q => rows[p][1] # rows[q][1]
    /\ Cardinality({p \in 1..Len(rows) : rows[p][1] = Clean(h.args.username)}) = 1
    /\ \E p \in 1..Len(rows) :
          rows[p] = <<Clean(h.args.username), Clean(h.args.name),
                      Clean(h.args.surname), Clean(h.args.patronym),
                      Clean(h.args.birthdate), Clean(h.args.place),
                      <<"U", "s", "e", "r">>, <<"0">>,
                      <<"u", "s", "e", "r", "_", "l", "o", "g", "/">> \o Clean(h.args.username) \o <<".", "j", "s", "o", "n">>>>
    /\ \A p \in 1..Len(rows) : InSeq(rows[p][1], C29_Seen(h))
    /\ \A p, q \in 1..Len(rows) :
          p < q => C29_FirstSeenAt(h, rows[p][1]) < C29_FirstSeenAt(h, rows[q][1])

C29_SingleCanonicalRow ==
    /\ \A i \in AuthCalls : C29_OneRowPerUser(hist[i])
    /\ (hist # <<>> /\ Len(hist) \in AuthCalls) => file = hist[Len(hist)].after

\* the second successful registration of a run whose file held two rows
\* and more for one username at the start: one row is left for that
\* username, and both registered users have their row
C29_Witness ==
    \E i, j \in AuthCalls :
        /\ i < j
        /\ hist[i].existed
        /\ hist[i].args.username # hist[j].args.username
        /\ Cardinality({k \in 1..Len(hist[i].before) :
                hist[i].before[k] # <<>> /\ Strip(hist[i].before[k][1]) = UserV}) >= 2
        /\ Cardinality({p \in 2..Len(hist[j].after) : hist[j].after[p][1] = UserV}) = 1
        /\ \E p \in 2..Len(hist[j].after) :
              hist[j].after[p][1] = Clean(hist[i].args.username)
        /\ C29_OneRowPerUser(hist[j])

====
